---- MODULE Spec2Model ----
(***************************************************************************)
(* The Agent orchestration loop of backend/src/agent/Agent.ts: the         *)
(* session-keyed conversation store, processMessage with its bounded       *)
(* model/tool loop, executeTool with its error containment, the           *)
(* conversation lifecycle operations, the tool registry, the transport's   *)
(* answer to the client, and (under AdapterSpec) one generateResponse call *)
(* of the Model Adapter.                                                   *)
(*                                                                         *)
(* Each action is one synchronous segment of the code, from one `await`    *)
(* (suspension point) to the next: segments of different processMessage    *)
(* invocations interleave, a segment itself is atomic (single-threaded     *)
(* event loop).                                                            *)
(***************************************************************************)
EXTENDS Integers, Sequences, FiniteSets, TLC

(***************************************************************************)
(* Bounds of the exploration.                                              *)
(***************************************************************************)
\* Exceptional events followed in one behaviour.  An event is: a
\* processMessage invocation after the first, a clear, a tool execution that
\* throws, an assistant response carrying more than one tool call or an empty
\* list of tool calls, a tool-requesting response after round 1 once
\* another event has happened, and a registerTool call after construction.
\* A behaviour without events is one invocation answered with single-call
\* batches, which is followed up to the iteration ceiling; the events happen
\* in its first and in its last round (Shallow), not in the rounds between.
MaxEvents == 2

\* processMessage invocations that can be in flight at the same time
Calls == {1, 2}
\* session ids the transport hands to processMessage
Sessions == {"s1", "s2"}
\* the session of the first invocation (the other choice is symmetric)
FirstSession == "s1"

(***************************************************************************)
(* Program constants.                                                      *)
(***************************************************************************)
maxIterations == 20

FallbackText ==
    "I apologize, but I reached the maximum number of processing steps. Please try rephrasing your request."

(***************************************************************************)
(* JavaScript values, as far as the loop looks at them.                    *)
(***************************************************************************)
Str(s) == [t |-> "string", v |-> s]
Null == [t |-> "null", v |-> ""]
Undefined == [t |-> "undefined", v |-> ""]
Obj(json) == [t |-> "object", v |-> json]
Err(msg) == [t |-> "Error", v |-> msg]

\* x is null or undefined: reading a property of it throws a TypeError
Nullish(x) == x.t \in {"null", "undefined"}

\* error.message
MessageOf(x) == IF x.t = "Error" THEN Str(x.v) ELSE Undefined

TypeErrorOf(x) ==
    Err("Cannot read properties of " \o x.t \o " (reading 'message')")

Truthy(x) == ~Nullish(x) /\ ~(x.t = "string" /\ x.v = "")

\* a || b
OrElse(a, b) == IF Truthy(a) THEN a ELSE b

\* JSON.stringify(x): undefined for undefined, a string otherwise
Stringify(x) ==
    CASE x.t = "undefined" -> Undefined
      [] x.t = "null" -> Str("null")
      [] x.t = "string" -> Str("\"" \o x.v \o "\"")
      [] OTHER -> Str(x.v)

(***************************************************************************)
(* Tools and the registry (Agent.tools: Map<string, Tool>).                *)
(***************************************************************************)
\* a Tool; `returns` is the value its execute function resolves with
ListFilesTool ==
    [name |-> "list_files",
     description |-> "List files and directories in a workspace directory",
     returns |-> Str("[FILE] a.ts")]

KubernetesListPodsTool ==
    [name |-> "kubernetes_list_pods",
     description |-> "List pods in a Kubernetes namespace with their current status.",
     returns |-> Obj("{\"count\":0}")]

\* (mutant) a name already taken keeps its first tool
registerToolKeepsFirst(reg, tool) ==
    [n \in DOMAIN reg \cup {tool.name} |->
        IF n \in DOMAIN reg THEN reg[n] ELSE tool]

\* registerTool: this.tools.set(tool.name, tool)
registerTool(reg, tool) ==
    [n \in DOMAIN reg \cup {tool.name} |->
        IF n = tool.name THEN tool ELSE reg[n]]

RECURSIVE registerTools(_, _)
registerTools(reg, ts) ==
    IF ts = <<>> THEN reg
    ELSE registerTools(registerTool(reg, Head(ts)), Tail(ts))

EmptyRegistry == [n \in {} |-> ListFilesTool]

\* a second tool under the name list_files, registered while the agent runs
ListFilesToolRecursive ==
    [name |-> "list_files",
     description |-> "List files and directories recursively",
     returns |-> Str("[DIR] src")]

\* the tools registerTool is called with after construction
RegisterableTools == {ListFilesToolRecursive}
\* the tools registered at construction (server start)
StartupTools == <<ListFilesTool, KubernetesListPodsTool>>

\* values a tool's execute function may throw or reject with
ThrownValues ==
    {Err("Kubernetes list pods failed: timeout"), Str("boom"), Null, Undefined}

(***************************************************************************)
(* Messages (types/index.ts).  An id is <<invocation, round, k>>: nanoid() *)
(* and the provider hand out ids that do not repeat.                       *)
(***************************************************************************)
ToolCall(id, name) == [id |-> id, name |-> name]

Message(role, id, content, hasToolCalls, toolCalls, toolResults) ==
    [role |-> role, id |-> id, content |-> content,
     hasToolCalls |-> hasToolCalls, toolCalls |-> toolCalls,
     toolResults |-> toolResults]

UserMessage(inv) ==
    Message("user", <<inv, 0, 0>>, Str("list files in src"), FALSE, <<>>, <<>>)

\* the tool names of the batches the model asks for
PlainBatch == <<"list_files">>
BatchNames ==
    {PlainBatch,
     <<"list_files", "kubernetes_list_pods", "list_files">>,
     <<"nonexistent_tool", "kubernetes_list_pods">>}

\* an assistant message of the Model Adapter asking for the tools `names`
ToolResponse(inv, round, names) ==
    Message("assistant", <<inv, round, 0>>, Str(""), TRUE,
            [k \in 1..Len(names) |-> ToolCall(<<inv, round, k>>, names[k])],
            <<>>)

\* an assistant message without tool calls: toolCalls absent, or empty
FinalResponse(inv, round, hasToolCalls) ==
    Message("assistant", <<inv, round, 0>>, Str("summary"), hasToolCalls,
            <<>>, <<>>)

\* errors a Model Adapter call rejects with
ModelErrors == {Err("401 Incorrect API key provided")}

VARIABLES
    tools,          \* Agent.tools: name -> Tool
    conversations,  \* Agent.conversations: session id -> history object (0: absent)
    heap,           \* the ConversationHistory objects' messages, by object
    calls,          \* the processMessage invocations: locals and position
    started,        \* invocations started so far
    invSid,         \* history: the session id each invocation was made with
    overlapped,     \* history: sessions on which two invocations overlapped
    events,         \* exceptional events so far
    registered,     \* history: the tools registerTool was called with, in order
    clearedAt,      \* history: invocations started when the session was last cleared
    client,         \* BackendClient: what each request's promise resolved with
    sockets,        \* WebSocketServer.sessions: socket id -> session id
    requests,       \* the agent_request of each slot and the events emitted for it
    adapter,        \* one generateResponse call of the Model Adapter
    fsTool,         \* one execution of a file tool
    tracker,        \* the CostTracker singleton and its cost file
    validation      \* one execution of pre_push_validate

vars ==
    <<tools, conversations, heap, calls, started, invSid, overlapped, events,
      registered, clearedAt, client, sockets, requests, adapter, fsTool,
      tracker, validation>>

agentVars ==
    <<tools, conversations, heap, calls, started, invSid, overlapped, events,
      registered, clearedAt, client, sockets, requests>>

\* the socket ids of the connections
SocketIds == {"k1", "k2"}
FirstSocket == "k1"
\* this.sessions has no entry for the socket
NoSession == ""

\* no agent_request was handled in this slot
NoRequest == [sid |-> NoSession, data |-> <<>>, emitted |-> <<>>]

\* the CostTracker singleton does not exist
TrackerIdle ==
    [pc |-> "none", dir |-> FALSE, file |-> <<>>, persisted |-> <<>>,
     read |-> <<>>, costLog |-> <<>>, saving |-> <<>>, tracked |-> 0,
     thrown |-> 0, loadError |-> FALSE, reset |-> FALSE]

\* no pre_push_validate execution is looked into
ValidationIdle == [pc |-> "idle", project |-> <<>>, args |-> <<>>,
                   checks |-> <<>>, verdict |-> ""]

\* no file tool execution is looked into
FsToolIdle ==
    [pc |-> "idle", tool |-> "", workspaceRoot |-> <<>>, path |-> <<>>,
     checked |-> FALSE, pending |-> <<>>, touched |-> {}, result |-> ""]

\* no generateResponse call is looked into
AdapterIdle ==
    [pc |-> "idle", provider |-> "", variant |-> "", messages |-> <<>>,
     request |-> <<>>, withTools |-> <<>>, raw |-> <<>>, failures |-> <<>>,
     costLog |-> [t |-> "array", v |-> 0], cost |-> <<>>,
     out |-> <<>>, error |-> <<>>]

IdleCall ==
    [pc |-> "idle", inv |-> 0, sid |-> "", hist |-> 0, iterations |-> 0,
     modelCalls |-> 0, toolRounds |-> 0, sent |-> <<>>, response |-> <<>>,
     offered |-> {}, idx |-> 0, dispatched |-> <<>>, tool |-> <<>>,
     statuses |-> <<>>, outcomes |-> <<>>,
     toolResults |-> <<>>, returned |-> <<>>, error |-> <<>>]

AgentInit ==
    /\ tools = registerTools(EmptyRegistry, StartupTools)
    /\ registered = StartupTools
    /\ clearedAt = [s \in Sessions |-> 0]
    /\ client = [c \in Calls |-> <<>>]
    /\ sockets = [k \in SocketIds |-> NoSession]
    /\ requests = [c \in Calls |-> NoRequest]
    /\ conversations = [s \in Sessions |-> 0]
    /\ heap = <<>>
    /\ calls = [c \in Calls |-> IdleCall]
    /\ started = 0
    /\ invSid = <<>>
    /\ overlapped = {}
    /\ events = 0

OthersIdle ==
    /\ adapter = AdapterIdle /\ fsTool = FsToolIdle
    /\ tracker = TrackerIdle /\ validation = ValidationIdle

Init == AgentInit /\ OthersIdle

\* no processMessage in flight in this slot
Settled(cr) == cr.pc \in {"idle", "resolved", "rejected"}

\* where the exploration lets an event happen
Shallow ==
    \A c \in Calls : calls[c].iterations <= 1 \/ calls[c].iterations = maxIterations
MayHappen(n) == n > 0 => Shallow /\ events + n <= MaxEvents

\* where the exploration lets a further invocation start: also, as the
\* first event, after an invocation that was rejected in its second round
MayStart(n) ==
    n > 0 =>
        /\ events + n <= MaxEvents
        /\ \A c \in Calls :
              \/ calls[c].iterations <= 1
              \/ calls[c].iterations = maxIterations
              \/ (calls[c].pc = "rejected" /\ calls[c].iterations = 2
                  /\ events = 0)

(***************************************************************************)
(* Transport (WebSocketServer.handleAgentRequest, BackendClient).  Every   *)
(* socket has one session id; an agent_request runs processMessage with    *)
(* it.  The server emits 'agent_response' for each tool status and for the *)
(* final response; the client's pending sendMessage promises listen to     *)
(* that event.  Events on one socket arrive in the order they were sent.   *)
(***************************************************************************)
\* the session ids of the connected sockets
LiveSessions == {sockets[k] : k \in SocketIds} \ {NoSession}

\* the payloads of an agent_request: an object with a message text, with an
\* empty text, without message, and no payload at all
ValidData == [t |-> "object", message |-> Str("list files in src")]
InvalidData ==
    {[t |-> "object", message |-> Str("")],
     [t |-> "object", message |-> Undefined],
     [t |-> "undefined", message |-> Undefined]}

\* what the server emits to the requesting socket
StatusEvent(msg) ==
    [event |-> "agent_response", message |-> <<msg>>, error |-> Undefined,
     terminal |-> FALSE]
FinalEvent(msg) ==
    [event |-> "agent_response", message |-> <<msg>>, error |-> Undefined,
     terminal |-> TRUE]
ErrorEvent(text) ==
    [event |-> "error", message |-> <<>>, error |-> text, terminal |-> TRUE]

\* socket.emit for the request of slot c
Emit(rq, c, evs) == [rq EXCEPT ![c].emitted = @ \o evs]

\* the chat message the status callback wraps its text in
StatusMessage(toolCall, tool) ==
    Message("assistant", <<toolCall.id[1], toolCall.id[2], 0 - toolCall.id[3]>>,
            Str("Executing: " \o tool.description \o "..."), FALSE, <<>>, <<>>)

\* socket.emit('agent_response', ...) for session s: responseHandler of every
\* pending request of that client matches (same requestId, or same
\* sessionId), unsubscribes and resolves with payload.message; nothing
\* arrives once the socket is gone
EmitAgentResponse(cl, s, msg) ==
    [d \in Calls |->
        IF s \in LiveSessions /\ requests[d].data # <<>>
           /\ requests[d].data[1].t = "object" /\ requests[d].sid = s
           /\ cl[d] = <<>>
        THEN <<msg>> ELSE cl[d]]

\* const tool = this.tools.get(toolCall.name): <<>> when there is none
Dispatch(reg, toolCall) ==
    IF toolCall.name \in DOMAIN reg THEN <<reg[toolCall.name]>> ELSE <<>>

\* executeTool up to its await: a tool that was found is announced through
\* the status callback, which the transport emits as an 'agent_response'
StatusCallback(cl, s, reg, toolCall) ==
    IF Dispatch(reg, toolCall) = <<>> THEN cl
    ELSE EmitAgentResponse(cl, s,
            StatusMessage(toolCall, Dispatch(reg, toolCall)[1]))

\* the event the status callback emits for a tool call, if it has a tool
StatusEvents(reg, toolCall) ==
    IF Dispatch(reg, toolCall) = <<>> THEN <<>>
    ELSE <<StatusEvent(StatusMessage(toolCall, Dispatch(reg, toolCall)[1]))>>

\* (mutant) the callback is invoked for calls without a tool as well
StatusCallsForEveryCall(statuses, reg, toolCall) ==
    Append(statuses, toolCall.id)

\* the tool calls of the batch the status callback was invoked for, in order
StatusCalls(statuses, reg, toolCall) ==
    IF Dispatch(reg, toolCall) = <<>> THEN statuses
    ELSE Append(statuses, toolCall.id)

(***************************************************************************)
(* processMessage                                                          *)
(***************************************************************************)
\* while (iterations < maxIterations) { iterations++; generateResponse(...) }
\* and, past the loop, the synthesized fallback message
FallbackMessage(inv) ==
    Message("assistant", <<inv, 0, 1>>, Str(FallbackText), FALSE, <<>>, <<>>)

\* (mutant) the first message of the invocation is returned instead
ResolvedWithUserMessage(cr, msg) ==
    [IdleCall EXCEPT !.pc = "resolved", !.inv = cr.inv, !.sid = cr.sid,
                     !.hist = cr.hist, !.iterations = cr.iterations,
                     !.modelCalls = cr.modelCalls,
                     !.toolRounds = cr.toolRounds,
                     !.returned = <<UserMessage(cr.inv)>>]

\* processMessage settled: its locals are gone, its outcome is what the
\* caller is left with
Resolved(cr, msg) ==
    [IdleCall EXCEPT !.pc = "resolved", !.inv = cr.inv, !.sid = cr.sid,
                     !.hist = cr.hist, !.iterations = cr.iterations,
                     !.modelCalls = cr.modelCalls,
                     !.toolRounds = cr.toolRounds, !.returned = <<msg>>]

\* (mutant) the error is swallowed and an apology returned
RejectedSwallowed(cr, e) ==
    [IdleCall EXCEPT !.pc = "resolved", !.inv = cr.inv, !.sid = cr.sid,
                     !.hist = cr.hist, !.iterations = cr.iterations,
                     !.modelCalls = cr.modelCalls,
                     !.toolRounds = cr.toolRounds,
                     !.returned = <<Message("assistant", <<cr.inv, 0, 1>>,
                                            Str(FallbackText), FALSE, <<>>, <<>>)>>]

\* (mutant) the error is dropped and the promise never settles
RejectedPending(cr, e) == [cr EXCEPT !.pc = "pending"]

Rejected(cr, e) ==
    [IdleCall EXCEPT !.pc = "rejected", !.inv = cr.inv, !.sid = cr.sid,
                     !.hist = cr.hist, !.iterations = cr.iterations,
                     !.modelCalls = cr.modelCalls,
                     !.toolRounds = cr.toolRounds, !.error = <<e>>]

\* Array.from(this.tools.values())
ToolValues(reg) == {reg[n] : n \in DOMAIN reg}

\* (mutant) only the latest message is sent
LoopHeadLastTurn(cr, msgs) ==
    IF cr.iterations < maxIterations
    THEN [cr EXCEPT !.iterations = @ + 1, !.modelCalls = @ + 1,
                    !.sent = <<msgs[Len(msgs)]>>,
                    !.offered = ToolValues(tools), !.pc = "awaitModel"]
    ELSE Resolved(cr, FallbackMessage(cr.inv))

LoopHead(cr, msgs) ==
    IF cr.iterations < maxIterations
    THEN [cr EXCEPT !.iterations = @ + 1, !.modelCalls = @ + 1,
                    !.sent = msgs, !.offered = ToolValues(tools),
                    !.pc = "awaitModel"]
    ELSE Resolved(cr, FallbackMessage(cr.inv))

\* processMessage up to its first await: the conversation is fetched or
\* created, the user message pushed, the first model call issued
\* (mutant) the store looked up without regard to the session id
LookupAny(convs, s) ==
    IF \E t \in Sessions : convs[t] # 0
    THEN convs[CHOOSE t \in Sessions : convs[t] # 0]
    ELSE 0

\* this.conversations.has / set / get, keyed by the session id: the
\* conversation of s, created empty when the store has none
Lookup(convs, s) == convs[s]

\* (mutant) every invocation gets a history of its own
getOrCreateConversationFresh(convs, hp, s) ==
    [conversations |-> [convs EXCEPT ![s] = Len(hp) + 1],
     heap |-> Append(hp, <<>>), h |-> Len(hp) + 1]

\* (mutant) a later invocation finds the session's history emptied
getOrCreateConversationEmptied(convs, hp, s) ==
    IF Lookup(convs, s) = 0
    THEN [conversations |-> [convs EXCEPT ![s] = Len(hp) + 1],
          heap |-> Append(hp, <<>>), h |-> Len(hp) + 1]
    ELSE [conversations |-> convs,
          heap |-> [hp EXCEPT ![Lookup(convs, s)] = <<>>],
          h |-> Lookup(convs, s)]

getOrCreateConversation(convs, hp, s) ==
    IF Lookup(convs, s) = 0
    THEN [conversations |-> [convs EXCEPT ![s] = Len(hp) + 1],
          heap |-> Append(hp, <<>>), h |-> Len(hp) + 1]
    ELSE [conversations |-> convs, heap |-> hp, h |-> Lookup(convs, s)]

Start(c, s) ==
    /\ Settled(calls[c])
    /\ \A d \in Calls : d < c => ~Settled(calls[d])
    /\ MayStart(IF started > 0 THEN 1 ELSE 0)
    /\ started = 0 => s = FirstSession
    /\ s \in LiveSessions
    /\ LET inv == started + 1
           got == getOrCreateConversation(conversations, heap, s)
           msgs == Append(got.heap[got.h], UserMessage(inv))
           cr == [IdleCall EXCEPT !.inv = inv, !.sid = s, !.hist = got.h]
       IN /\ conversations' = got.conversations
          /\ heap' = [got.heap EXCEPT ![got.h] = msgs]
          /\ calls' = [calls EXCEPT ![c] = LoopHead(cr, msgs)]
          /\ started' = inv
          /\ invSid' = Append(invSid, s)
          /\ overlapped' =
                IF \E d \in Calls : ~Settled(calls[d]) /\ calls[d].sid = s
                THEN overlapped \cup {s} ELSE overlapped
          /\ events' = IF started > 0 THEN events + 1 ELSE events
          /\ client' = [client EXCEPT ![c] = <<>>]
          /\ requests' = [requests EXCEPT ![c] =
                [sid |-> s, data |-> <<ValidData>>, emitted |-> <<>>]]
    /\ UNCHANGED <<tools, registered, clearedAt, adapter, fsTool,
                    sockets, tracker, validation>>

\* response.toolCalls && response.toolCalls.length > 0
WantsTools(m) == m.hasToolCalls /\ Len(m.toolCalls) > 0

\* the events a response asking for the tools `names` counts as
ResponseEvents(cr, names) ==
    IF Len(names) > 1 \/ (cr.iterations > 1 /\ events > 0) THEN 1 ELSE 0

\* the responses the Model Adapter may resolve with
Responses(cr) ==
    {FinalResponse(cr.inv, cr.iterations, b) :
        b \in {b \in BOOLEAN : b => events + 1 <= MaxEvents}}
    \cup {ToolResponse(cr.inv, cr.iterations, names) :
            names \in {n \in BatchNames :
                /\ events + ResponseEvents(cr, n) <= MaxEvents
                /\ Len(n) > 1 => Shallow}}

\* generateResponse resolved: the response is pushed; without tool calls it
\* is returned, otherwise the first tool call is dispatched
ModelResolve(c, resp) ==
    LET cr == calls[c]
        msgs == Append(heap[cr.hist], resp)
    IN /\ cr.pc = "awaitModel"
       /\ resp \in Responses(cr)
       /\ heap' = [heap EXCEPT ![cr.hist] = msgs]
       /\ calls' = [calls EXCEPT ![c] =
            IF WantsTools(resp)
            THEN [cr EXCEPT !.response = <<resp>>, !.idx = 1,
                            !.toolRounds = @ + 1,
                            !.toolResults = <<>>, !.outcomes = <<>>,
                            !.dispatched = <<resp.toolCalls[1].id>>,
                            !.tool = Dispatch(tools, resp.toolCalls[1]),
                            !.statuses =
                                StatusCalls(<<>>, tools, resp.toolCalls[1]),
                            !.pc = "awaitTool"]
            ELSE Resolved(cr, resp)]
       /\ client' =
            IF WantsTools(resp)
            THEN StatusCallback(client, cr.sid, tools, resp.toolCalls[1])
            ELSE EmitAgentResponse(client, cr.sid, resp)
       /\ requests' =
            Emit(requests, c,
                 IF WantsTools(resp) THEN StatusEvents(tools, resp.toolCalls[1])
                 ELSE <<FinalEvent(resp)>>)
       /\ events' = IF WantsTools(resp)
                    THEN events + ResponseEvents(cr, [k \in 1..Len(resp.toolCalls) |-> resp.toolCalls[k].name])
                    ELSE IF resp.hasToolCalls THEN events + 1 ELSE events
       /\ UNCHANGED <<tools, conversations, started, invSid, overlapped,
                       registered, clearedAt, adapter, fsTool,
                    sockets, tracker, validation>>

\* (mutant) the rejection removes what the invocation pushed
ModelRejectRollsBack(c, e) ==
    LET cr == calls[c]
        NotOwn(m) == m.id[1] # cr.inv
    IN /\ cr.pc = "awaitModel"
       /\ calls' = [calls EXCEPT ![c] = Rejected(cr, e)]
       /\ requests' = Emit(requests, c, <<ErrorEvent(MessageOf(e))>>)
       /\ heap' = [heap EXCEPT ![cr.hist] = SelectSeq(@, NotOwn)]
       /\ UNCHANGED <<tools, conversations, started, invSid, overlapped,
                       events, registered, clearedAt, client, adapter, fsTool,
                       sockets, tracker, validation>>

\* generateResponse rejected: the await throws, processMessage rejects
ModelReject(c, e) ==
    LET cr == calls[c]
    IN /\ cr.pc = "awaitModel"
       /\ calls' = [calls EXCEPT ![c] = Rejected(cr, e)]
       /\ requests' = Emit(requests, c, <<ErrorEvent(MessageOf(e))>>)
       /\ UNCHANGED <<tools, conversations, heap, started, invSid, overlapped,
                       events, registered, clearedAt, client, adapter, fsTool,
                    sockets, tracker, validation>>

(***************************************************************************)
(* executeTool                                                             *)
(***************************************************************************)
ToolResult(id, name, result, error) ==
    [id |-> id, name |-> name, result |-> result, error |-> error]

\* what the execution of a tool call can end as, `found` being the tool
\* looked up when the call was dispatched
Outcomes(found, toolCall) ==
    IF found = <<>>
    THEN {[kind |-> "absent", v |-> Undefined]}
    ELSE {[kind |-> "resolve", v |-> found[1].returns]}
         \cup {[kind |-> "throw", v |-> x] : x \in ThrownValues}

AllTools == {StartupTools[i] : i \in 1..Len(StartupTools)} \cup RegisterableTools

AllOutcomes ==
    UNION {Outcomes(found, ToolCall(<<0, 0, 0>>, "")) :
             found \in {<<>>} \cup {<<t>> : t \in AllTools}}

\* the catch block of executeTool, entered with the thrown value
CatchBlock(toolCall, thrown) ==
    IF Nullish(thrown)
    THEN [ok |-> FALSE, error |-> TypeErrorOf(thrown),
          result |-> ToolResult(toolCall.id, toolCall.name, Null, Undefined)]
    ELSE [ok |-> TRUE, error |-> Undefined,
          result |-> ToolResult(toolCall.id, toolCall.name, Null,
                                MessageOf(thrown))]

\* executeTool(toolCall): ok with a ToolResult, or a rejection
executeTool(found, toolCall, outcome) ==
    IF found = <<>>
    THEN [ok |-> TRUE, error |-> Undefined,
          result |-> ToolResult(toolCall.id, toolCall.name, Null,
                        Str("Tool '" \o toolCall.name \o "' not found"))]
    ELSE IF outcome.kind = "resolve"
    THEN [ok |-> TRUE, error |-> Undefined,
          result |-> ToolResult(toolCall.id, toolCall.name, outcome.v,
                                Undefined)]
    ELSE CatchBlock(toolCall, outcome.v)

\* (mutant) the tool-role message gets an id of its own
ToolResultMessageOwnId(r) ==
    Message("tool", <<0, 0, 0>>,
            IF r.result.t = "string" THEN r.result
            ELSE Stringify(OrElse(r.error, r.result)),
            FALSE, <<>>, <<r>>)

\* the tool-role message of one ToolResult
ToolResultMessage(r) ==
    Message("tool", r.id,
            IF r.result.t = "string" THEN r.result
            ELSE Stringify(OrElse(r.error, r.result)),
            FALSE, <<>>, <<r>>)

\* (mutant) the results are pushed last first
PushToolResultsReversed(msgs, results) ==
    msgs \o [k \in 1..Len(results) |->
                ToolResultMessage(results[Len(results) + 1 - k])]

\* (mutant) the results overwrite the assistant message that asked for them
PushToolResultsReplacing(msgs, results) ==
    SubSeq(msgs, 1, Len(msgs) - 1)
        \o [k \in 1..Len(results) |-> ToolResultMessage(results[k])]

\* (mutant) the first result is pushed before the others are collected,
\* ahead of what the history received last
PushToolResultsSpread(msgs, results) ==
    SubSeq(msgs, 1, Len(msgs) - 1)
        \o <<ToolResultMessage(results[1])>>
        \o <<msgs[Len(msgs)]>>
        \o [k \in 1..(Len(results) - 1) |-> ToolResultMessage(results[k + 1])]

\* the second for-loop: one tool-role message per result, in order
PushToolResults(msgs, results) ==
    msgs \o [k \in 1..Len(results) |-> ToolResultMessage(results[k])]

\* (mutant) the message returned after the last round is pushed as well
AfterRoundWithFallback(msgs, next) ==
    IF next.pc = "resolved" THEN msgs \o next.returned ELSE msgs

\* the history at the end of a round: after the tool messages nothing is
\* pushed, neither when the loop goes round nor when it is left
AfterRound(msgs, next) == msgs

\* the awaited executeTool settled: a rejection leaves processMessage; a
\* result is collected and the next call dispatched or, after the last one,
\* the tool messages are pushed and the loop goes round
ToolSettle(c, outcome) ==
    LET cr == calls[c]
        resp == cr.response[1]
        toolCall == resp.toolCalls[cr.idx]
        r == executeTool(cr.tool, toolCall, outcome)
        results == Append(cr.toolResults, r.result)
        msgs == PushToolResults(heap[cr.hist], results)
        next == LoopHead([cr EXCEPT !.toolResults = results,
                                    !.outcomes = Append(@, outcome.kind)],
                         msgs)
    IN /\ cr.pc = "awaitTool"
       /\ outcome \in Outcomes(cr.tool, toolCall)
       /\ MayHappen(IF outcome.kind = "throw" THEN 1 ELSE 0)
       /\ events' = IF outcome.kind = "throw" THEN events + 1 ELSE events
       /\ IF ~r.ok
          THEN /\ calls' = [calls EXCEPT ![c] = Rejected(cr, r.error)]
               /\ heap' = heap
               /\ client' = client
               /\ requests' = Emit(requests, c, <<ErrorEvent(MessageOf(r.error))>>)
          ELSE IF cr.idx < Len(resp.toolCalls)
          THEN /\ calls' = [calls EXCEPT ![c] =
                    [cr EXCEPT !.toolResults = results, !.idx = @ + 1,
                               !.outcomes = Append(@, outcome.kind),
                               !.dispatched =
                                   Append(@, resp.toolCalls[cr.idx + 1].id),
                               !.tool =
                                   Dispatch(tools, resp.toolCalls[cr.idx + 1]),
                               !.statuses =
                                   StatusCalls(@, tools,
                                               resp.toolCalls[cr.idx + 1])]]
               /\ heap' = heap
               /\ client' = StatusCallback(client, cr.sid, tools,
                                           resp.toolCalls[cr.idx + 1])
               /\ requests' = Emit(requests, c,
                                   StatusEvents(tools, resp.toolCalls[cr.idx + 1]))
          ELSE /\ heap' = [heap EXCEPT ![cr.hist] = AfterRound(msgs, next)]
               /\ calls' = [calls EXCEPT ![c] = next]
               /\ client' = IF next.pc = "resolved"
                             THEN EmitAgentResponse(client, cr.sid,
                                                    next.returned[1])
                             ELSE client
               /\ requests' = Emit(requests, c,
                                   IF next.pc = "resolved"
                                   THEN <<FinalEvent(next.returned[1])>>
                                   ELSE <<>>)
       /\ UNCHANGED <<tools, conversations, started, invSid, overlapped,
                       registered, clearedAt, adapter, fsTool,
                    sockets, tracker, validation>>

(***************************************************************************)
(* Conversation lifecycle                                                  *)
(***************************************************************************)
\* getConversation(sessionId): the stored messages, <<>> standing for absent
\* as well as for empty (see HasConversation)
HasConversation(s) == conversations[s] # 0
getConversation(s) == IF HasConversation(s) THEN heap[conversations[s]] ELSE <<>>

\* (mutant) the entry is kept
clearConversationKeeps(s) ==
    /\ MayHappen(1)
    /\ s \in LiveSessions
    /\ conversations' = conversations
    /\ clearedAt' = [clearedAt EXCEPT ![s] = started]
    /\ events' = events + 1
    /\ UNCHANGED <<tools, heap, calls, started, invSid, overlapped,
                    registered, client, requests, adapter, fsTool,
                    sockets, tracker, validation>>

\* (mutant) the stored history object is emptied in place
clearConversationEmpties(s) ==
    /\ MayHappen(1)
    /\ s \in LiveSessions
    /\ heap' = [h \in 1..Len(heap) |->
                   IF h = conversations[s] THEN <<>> ELSE heap[h]]
    /\ clearedAt' = [clearedAt EXCEPT ![s] = started]
    /\ events' = events + 1
    /\ UNCHANGED <<tools, conversations, calls, started, invSid, overlapped,
                    registered, client, requests, adapter, fsTool,
                    sockets, tracker, validation>>

clearConversation(s) ==
    /\ MayHappen(1)
    /\ s \in LiveSessions
    /\ conversations' = [conversations EXCEPT ![s] = 0]
    /\ clearedAt' = [clearedAt EXCEPT ![s] = started]
    /\ events' = events + 1
    /\ UNCHANGED <<tools, heap, calls, started, invSid, overlapped,
                    registered, client, requests, adapter, fsTool,
                    sockets, tracker, validation>>

clearAllConversations ==
    /\ MayHappen(1)
    /\ conversations' = [s \in Sessions |-> 0]
    /\ clearedAt' = [s \in Sessions |-> started]
    /\ events' = events + 1
    /\ UNCHANGED <<tools, heap, calls, started, invSid, overlapped,
                    registered, client, requests, adapter, fsTool,
                    sockets, tracker, validation>>

(***************************************************************************)
(* Connection (io.on('connection')): the socket gets a session id of its   *)
(* own, nanoid(), an id that no socket has and nothing was done with.      *)
(***************************************************************************)
Unused(s) ==
    /\ s \notin LiveSessions
    /\ conversations[s] = 0
    /\ \A i \in 1..Len(invSid) : invSid[i] # s
    /\ \A c \in Calls : requests[c].sid # s

\* (mutant) every socket gets the same session id
connectShared(k, s) ==
    /\ sockets[k] = NoSession
    /\ k # FirstSocket => sockets[FirstSocket] # NoSession
    /\ s = FirstSession
    /\ sockets' = [sockets EXCEPT ![k] = s]
    /\ UNCHANGED <<tools, conversations, heap, calls, started, invSid,
                    overlapped, events, registered, clearedAt, client,
                    requests, adapter, fsTool, tracker, validation>>

connect(k, s) ==
    /\ sockets[k] = NoSession
    /\ k # FirstSocket => sockets[FirstSocket] # NoSession
    /\ Unused(s) /\ (Unused(FirstSession) => s = FirstSession)
    /\ sockets' = [sockets EXCEPT ![k] = s]
    /\ UNCHANGED <<tools, conversations, heap, calls, started, invSid,
                    overlapped, events, registered, clearedAt, client,
                    requests, adapter, fsTool, tracker, validation>>

(***************************************************************************)
(* handleAgentRequest for a payload processMessage is not called with:     *)
(* reading data.requestId of a missing payload throws before the try       *)
(* block, a falsy message is answered with the error event.                *)
(***************************************************************************)
handleAgentRequest(c, s, data) ==
    /\ calls[c].pc = "idle"
    /\ \A d \in Calls : d < c => calls[d].pc # "idle"
    /\ MayHappen(1)
    /\ s \in LiveSessions
    /\ requests' = [requests EXCEPT ![c] =
          [sid |-> s, data |-> <<data>>,
           emitted |-> IF Nullish(data) THEN <<>>
                       ELSE IF ~Truthy(data.message)
                       THEN <<ErrorEvent(Str("Message is required"))>>
                       ELSE <<>>]]
    /\ client' = [client EXCEPT ![c] = <<>>]
    /\ events' = events + 1
    /\ UNCHANGED <<tools, conversations, heap, calls, started, invSid,
                    overlapped, registered, clearedAt, sockets, adapter,
                    fsTool, tracker, validation>>

(***************************************************************************)
(* The client's 60 second timer of a request (BackendClient.sendMessage):  *)
(* the response handler is removed and the promise rejected.               *)
(***************************************************************************)
RequestTimeout == Err("Request timeout")

\* (mutant) the timeout ends the invocation on the backend
TimeoutCancels(c) ==
    /\ MayHappen(1)
    /\ requests[c].data # <<>> /\ requests[c].data[1].t = "object"
    /\ client[c] = <<>>
    /\ client' = [client EXCEPT ![c] = <<RequestTimeout>>]
    /\ calls' = [calls EXCEPT ![c] =
          IF Settled(calls[c]) THEN calls[c]
          ELSE Rejected(calls[c], RequestTimeout)]
    /\ events' = events + 1
    /\ UNCHANGED <<tools, conversations, heap, started, invSid, overlapped,
                    registered, clearedAt, sockets, requests, adapter, fsTool,
                    tracker, validation>>

Timeout(c) ==
    /\ MayHappen(1)
    /\ requests[c].data # <<>> /\ requests[c].data[1].t = "object"
    /\ client[c] = <<>>
    /\ client' = [client EXCEPT ![c] = <<RequestTimeout>>]
    /\ events' = events + 1
    /\ UNCHANGED <<tools, conversations, heap, calls, started, invSid,
                    overlapped, registered, clearedAt, sockets, requests,
                    adapter, fsTool, tracker, validation>>

(***************************************************************************)
(* Client disconnect (socket.on('disconnect')): the socket's entry leaves  *)
(* WebSocketServer.sessions; no request and no clear_conversation of that  *)
(* session arrives any more, an invocation in flight goes on.              *)
(***************************************************************************)
\* (mutant) the disconnect evicts the session's conversation
disconnectEvicts(k) ==
    /\ MayHappen(1)
    /\ sockets[k] # NoSession
    /\ sockets' = [sockets EXCEPT ![k] = NoSession]
    /\ conversations' = [conversations EXCEPT ![sockets[k]] = 0]
    /\ events' = events + 1
    /\ UNCHANGED <<tools, heap, calls, started, invSid, overlapped,
                    registered, clearedAt, client, requests, adapter, fsTool,
                    tracker, validation>>

disconnect(k) ==
    /\ MayHappen(1)
    /\ sockets[k] # NoSession
    /\ sockets' = [sockets EXCEPT ![k] = NoSession]
    /\ events' = events + 1
    /\ UNCHANGED <<tools, conversations, heap, calls, started, invSid,
                    overlapped, registered, clearedAt, client, requests, adapter, fsTool,
                    tracker, validation>>

(***************************************************************************)
(* Registration after construction                                         *)
(***************************************************************************)
registerToolLater(tool) ==
    /\ MayHappen(1)
    /\ tools' = registerTool(tools, tool)
    /\ registered' = Append(registered, tool)
    /\ events' = events + 1
    /\ UNCHANGED <<conversations, heap, calls, started, invSid, overlapped,
                    clearedAt, client, requests, adapter, fsTool,
                    sockets, tracker, validation>>

Next ==
    \/ \E c \in Calls, k \in SocketIds : Start(c, sockets[k])
    \/ \E c \in Calls : \E resp \in Responses(calls[c]) : ModelResolve(c, resp)
    \/ \E c \in Calls, e \in ModelErrors : ModelReject(c, e)
    \/ \E c \in Calls : \E o \in AllOutcomes : ToolSettle(c, o)
    \/ \E k \in SocketIds : clearConversation(sockets[k])
    \/ clearAllConversations
    \/ \E tool \in RegisterableTools : registerToolLater(tool)
    \/ \E k \in SocketIds : disconnect(k)
    \/ \E k \in SocketIds, s \in Sessions : connect(k, s)
    \/ \E c \in Calls, k \in SocketIds, data \in InvalidData :
          handleAgentRequest(c, sockets[k], data)
    \/ \E c \in Calls : Timeout(c)

Spec == Init /\ [][Next]_vars

\* every Model Adapter call and every tool execution eventually settles
ModelSettles(c) ==
    \/ \E resp \in Responses(calls[c]) : ModelResolve(c, resp)
    \/ \E e \in ModelErrors : ModelReject(c, e)
ToolSettles(c) == \E o \in AllOutcomes : ToolSettle(c, o)

FairSpec ==
    /\ Spec
    /\ \A c \in Calls : WF_vars(ModelSettles(c)) /\ WF_vars(ToolSettles(c))

(***************************************************************************)
(* The Model Adapter (class AIProvider), one generateResponse call looked  *)
(* at on its own: the translation of the history into the provider's       *)
(* request, the provider call, and the translation of its reply.  The      *)
(* class exists in two variants, the one in agent/AIProvider.ts and the    *)
(* one in agent/Agent.ts.                                                  *)
(***************************************************************************)
Providers == {"openai", "anthropic", "groq", "ollama"}
Variants == {"Agent.ts", "AIProvider.ts"}

SystemPrompt == "You are an expert DevOps AI assistant"

GroqApology ==
    "I apologize, but I encountered an issue with function calling. Please try rephrasing your request or use a different command."

\* histories as processMessage hands them over: a first round, and a second
\* round after a batch of two tool calls
AdapterHistories ==
    {<<UserMessage(1)>>,
     PushToolResults(
        <<UserMessage(1),
          ToolResponse(1, 1, <<"nonexistent_tool", "kubernetes_list_pods">>)>>,
        <<ToolResult(<<1, 1, 1>>, "nonexistent_tool", Null,
                     Str("Tool 'nonexistent_tool' not found")),
          ToolResult(<<1, 1, 2>>, "kubernetes_list_pods",
                     KubernetesListPodsTool.returns, Undefined)>>)}

\* a message of the provider request
ProviderMessage(role, content, tool_call_id, tool_calls) ==
    [role |-> role, content |-> content, tool_call_id |-> tool_call_id,
     tool_calls |-> tool_calls]

\* formattedMessages of generateOpenAIResponse
FormatOpenAI(messages) ==
    <<ProviderMessage("system", Str(SystemPrompt), <<>>, <<>>)>>
    \o [i \in 1..Len(messages) |->
          IF messages[i].role = "tool"
          THEN ProviderMessage("tool", messages[i].content,
                               <<messages[i].id>>, <<>>)
          ELSE ProviderMessage(messages[i].role, messages[i].content, <<>>,
                               IF messages[i].hasToolCalls
                               THEN messages[i].toolCalls ELSE <<>>)]

\* formattedMessages of generateGroqResponse (the same mapping)
FormatGroq(messages) == FormatOpenAI(messages)

\* formattedMessages of generateAnthropicResponse: role and content only
FormatAnthropic(messages) ==
    [i \in 1..Len(messages) |->
        ProviderMessage(IF messages[i].role = "assistant"
                        THEN "assistant" ELSE "user",
                        messages[i].content, <<>>, <<>>)]

\* formattedMessages of generateOllamaResponse: role and content only
FormatOllama(messages) ==
    <<ProviderMessage("system", Str(SystemPrompt), <<>>, <<>>)>>
    \o [i \in 1..Len(messages) |->
          ProviderMessage(messages[i].role, messages[i].content, <<>>, <<>>)]

FormatFor(provider, messages) ==
    CASE provider = "openai" -> FormatOpenAI(messages)
      [] provider = "groq" -> FormatGroq(messages)
      [] provider = "anthropic" -> FormatAnthropic(messages)
      [] OTHER -> FormatOllama(messages)

\* the argument strings a provider sends with a tool call
ArgumentStrings == {"{\"directory\":\"src\"}", "{\"directory\":", ""}

\* JSON.parse(s) succeeds
JsonValid(s) == s \in {"{}", "{\"directory\":\"src\"}"}

\* s || '{}'
OrEmptyObject(s) == IF s = "" THEN "{}" ELSE s

RawToolCall(k, arguments) ==
    [id |-> <<1, 2, k>>,
     name |-> IF k = 1 THEN "list_files" ELSE "kubernetes_list_pods",
     arguments |-> arguments]

\* the replies of the provider: content, and up to two tool calls
\* (usage: whether the reply reports token usage)
ProviderReplies ==
    {[id |-> <<1, 2, 0>>, content |-> c, tool_calls |-> <<>>, usage |-> u] :
        c \in {Null, Str("Two pods are running.")}, u \in BOOLEAN}
    \cup {[id |-> <<1, 2, 0>>, content |-> Null,
           tool_calls |-> <<RawToolCall(1, a)>>, usage |-> TRUE] :
             a \in ArgumentStrings}
    \cup {[id |-> <<1, 2, 0>>, content |-> Null,
           tool_calls |-> <<RawToolCall(1, a), RawToolCall(2, b)>>,
           usage |-> TRUE] :
             a \in ArgumentStrings, b \in ArgumentStrings}

ApiError(status, code) ==
    [t |-> "Error", v |-> code, status |-> status, code |-> code]
ToolUseFailed == ApiError(400, "tool_use_failed")
RateLimited == ApiError(429, "rate_limit_exceeded")
\* what the provider call rejects with, and what the retry rejects with
ProviderErrors == {ToolUseFailed, RateLimited}
RetryErrors == {RateLimited}

SyntaxErrorOf(s) == Err("Unexpected end of JSON input: " \o s)

\* tool_calls.map(tc => ({id, name, arguments: ...}))
ParsedToolCalls(raws) ==
    [k \in 1..Len(raws) |-> ToolCall(raws[k].id, raws[k].name)]

AdapterMessage(raw, hasToolCalls, toolCalls) ==
    Message("assistant", raw.id, OrElse(raw.content, Str("")),
            hasToolCalls, toolCalls, <<>>)

Returned(msg) == [ok |-> TRUE, out |-> <<msg>>, error |-> <<>>]
Thrown(e) == [ok |-> FALSE, out |-> <<>>, error |-> <<e>>]

\* generateOpenAIResponse after the provider call: JSON.parse inside map,
\* no try block around it (both variants)
ParseOpenAI(raw) ==
    IF Len(raw.tool_calls) > 0
    THEN IF \A k \in 1..Len(raw.tool_calls) :
               JsonValid(raw.tool_calls[k].arguments)
         THEN Returned(AdapterMessage(raw, TRUE, ParsedToolCalls(raw.tool_calls)))
         ELSE LET bad == CHOOSE k \in 1..Len(raw.tool_calls) :
                    /\ ~JsonValid(raw.tool_calls[k].arguments)
                    /\ \A j \in 1..(k - 1) :
                          JsonValid(raw.tool_calls[j].arguments)
              IN Thrown(SyntaxErrorOf(raw.tool_calls[bad].arguments))
    ELSE Returned(AdapterMessage(raw, FALSE, <<>>))

GroqParsable(tc) == JsonValid(OrEmptyObject(tc.arguments))

\* generateGroqResponse after the provider call; the variant in Agent.ts
\* catches the parse error of a call and filters the call out, the variant
\* in AIProvider.ts lets it escape
ParseGroq(variant, raw) ==
    IF Len(raw.tool_calls) > 0
    THEN IF variant = "Agent.ts"
         THEN Returned(AdapterMessage(raw, TRUE,
                  ParsedToolCalls(SelectSeq(raw.tool_calls, GroqParsable))))
         ELSE IF \A k \in 1..Len(raw.tool_calls) :
                    GroqParsable(raw.tool_calls[k])
         THEN Returned(AdapterMessage(raw, TRUE, ParsedToolCalls(raw.tool_calls)))
         ELSE LET bad == CHOOSE k \in 1..Len(raw.tool_calls) :
                    /\ ~GroqParsable(raw.tool_calls[k])
                    /\ \A j \in 1..(k - 1) : GroqParsable(raw.tool_calls[j])
              IN Thrown(SyntaxErrorOf(raw.tool_calls[bad].arguments))
    ELSE Returned(AdapterMessage(raw, FALSE, <<>>))

\* generateAnthropicResponse after the provider call: tool_use blocks carry
\* their input as an object, nothing is parsed
ParseAnthropic(raw) ==
    Returned(Message("assistant", raw.id,
                     IF raw.content.t = "string" THEN raw.content ELSE Str(""),
                     Len(raw.tool_calls) > 0, ParsedToolCalls(raw.tool_calls),
                     <<>>))

\* generateOllamaResponse after the provider call: content only
ParseOllama(raw) ==
    Returned(Message("assistant", raw.id, raw.content, FALSE, <<>>, <<>>))

ParseFor(provider, variant, raw) ==
    CASE provider = "openai" -> ParseOpenAI(raw)
      [] provider = "groq" -> ParseGroq(variant, raw)
      [] provider = "anthropic" -> ParseAnthropic(raw)
      [] OTHER -> ParseOllama(raw)

\* error.status === 400 && error.error?.code === 'tool_use_failed', in the
\* catch block that only the Groq adapter of Agent.ts has
RetriesWithoutTools(provider, variant, e) ==
    /\ provider = "groq" /\ variant = "Agent.ts"
    /\ e.status = 400 /\ e.code = "tool_use_failed"

(***************************************************************************)
(* CostTracker (CostTrackingTool.ts), the singleton the OpenAI adapter of  *)
(* Agent.ts reports token usage to.  Its log is loaded from the cost file  *)
(* when the singleton is constructed and lives as long as the process.     *)
(***************************************************************************)
\* a JavaScript array of n entries
Arr(n) == [t |-> "array", v |-> n]

\* what logs/devops-agent-costs.json may hold: nothing (no file), an array,
\* a truncated text, JSON that is not an array
CostFiles == {"absent", "[]", "[{\"cost\":", "{}"}

\* loadCostLog: this.costLog after the load; a parse error is caught and
\* leaves an empty log, parsed JSON is taken as it is
loadCostLog(file) ==
    IF file = "absent" THEN Arr(0)
    ELSE IF file = "[]" THEN Arr(0)
    ELSE IF file = "{}" THEN Obj("{}")
    ELSE Arr(0)

\* how saveCostLog's file operations may end
SaveOutcomes == {"written", "mkdir rejected", "writeFile rejected"}

\* saveCostLog: its try block catches every rejection, the promise resolves
saveCostLog(outcome) == [ok |-> TRUE]

\* trackRequest up to its await: this.costLog.push(entry), outside any try
trackRequest(costLog) ==
    IF costLog.t = "array"
    THEN [ok |-> TRUE, costLog |-> Arr(costLog.v + 1), error |-> <<>>]
    ELSE [ok |-> FALSE, costLog |-> costLog,
          error |-> <<Err("this.costLog.push is not a function")>>]

\* if (response.usage): only generateOpenAIResponse of Agent.ts tracks cost
TracksCost(provider, variant, raw) ==
    provider = "openai" /\ variant = "Agent.ts" /\ raw.usage

AdapterInit ==
    /\ AgentInit
    /\ adapter \in
         {[AdapterIdle EXCEPT !.pc = "start", !.provider = p, !.variant = v,
                              !.messages = h, !.costLog = loadCostLog(f)] :
             p \in Providers, v \in Variants, h \in AdapterHistories,
             f \in CostFiles}
    /\ fsTool = FsToolIdle
    /\ tracker = TrackerIdle /\ validation = ValidationIdle

\* generateResponse up to the provider call: the history is translated and
\* sent together with the tool definitions (Ollama sends no tools)
AdapterSend ==
    /\ adapter.pc = "start"
    /\ adapter' = [adapter EXCEPT
            !.request = FormatFor(adapter.provider, adapter.messages),
            !.withTools = <<adapter.provider # "ollama">>,
            !.pc = "awaitProvider"]
    /\ UNCHANGED <<agentVars, fsTool, tracker, validation>>

\* the provider call resolved: usage is reported to the cost tracker and
\* trackRequest awaited, or the reply is translated at once
ProviderResolves(raw) ==
    LET r == ParseFor(adapter.provider, adapter.variant, raw)
        t == trackRequest(adapter.costLog)
    IN /\ adapter.pc = "awaitProvider"
       /\ adapter' =
             IF TracksCost(adapter.provider, adapter.variant, raw)
             THEN IF t.ok
                  THEN [adapter EXCEPT !.raw = <<raw>>, !.costLog = t.costLog,
                                       !.pc = "awaitCost"]
                  ELSE [adapter EXCEPT !.raw = <<raw>>, !.error = t.error,
                                       !.pc = "rejected"]
             ELSE [adapter EXCEPT
                     !.raw = <<raw>>, !.out = r.out, !.error = r.error,
                     !.pc = IF r.ok THEN "resolved" ELSE "rejected"]
       /\ UNCHANGED <<agentVars, fsTool, tracker, validation>>

\* the awaited trackRequest settled (saveCostLog ended): the reply is
\* translated
CostSettles(outcome) ==
    LET r == ParseFor(adapter.provider, adapter.variant, adapter.raw[1])
    IN /\ adapter.pc = "awaitCost"
       /\ saveCostLog(outcome).ok
       /\ adapter' = [adapter EXCEPT
               !.cost = <<outcome>>, !.out = r.out, !.error = r.error,
               !.pc = IF r.ok THEN "resolved" ELSE "rejected"]
       /\ UNCHANGED <<agentVars, fsTool, tracker, validation>>

\* the provider call rejected: retried without tools, or re-thrown
ProviderRejects(e) ==
    /\ adapter.pc = "awaitProvider"
    /\ adapter' =
          IF RetriesWithoutTools(adapter.provider, adapter.variant, e)
          THEN [adapter EXCEPT !.failures = Append(@, e),
                               !.withTools = Append(@, FALSE),
                               !.pc = "awaitRetry"]
          ELSE [adapter EXCEPT !.failures = Append(@, e),
                               !.error = <<e>>, !.pc = "rejected"]
    /\ UNCHANGED <<agentVars, fsTool, tracker, validation>>

\* the retry resolved: a text-only message, tool calls of the reply ignored
RetryResolves(raw) ==
    /\ adapter.pc = "awaitRetry"
    /\ adapter' = [adapter EXCEPT
            !.raw = <<raw>>,
            !.out = <<Message("assistant", raw.id,
                              OrElse(raw.content, Str(GroqApology)),
                              FALSE, <<>>, <<>>)>>,
            !.pc = "resolved"]
    /\ UNCHANGED <<agentVars, fsTool, tracker, validation>>

\* the retry rejected: nothing catches it
RetryRejects(e) ==
    /\ adapter.pc = "awaitRetry"
    /\ adapter' = [adapter EXCEPT !.failures = Append(@, e),
                                  !.error = <<e>>, !.pc = "rejected"]
    /\ UNCHANGED <<agentVars, fsTool, tracker, validation>>

AdapterNext ==
    \/ AdapterSend
    \/ \E raw \in ProviderReplies : ProviderResolves(raw)
    \/ \E outcome \in SaveOutcomes : CostSettles(outcome)
    \/ \E e \in ProviderErrors : ProviderRejects(e)
    \/ \E raw \in ProviderReplies : RetryResolves(raw)
    \/ \E e \in RetryErrors : RetryRejects(e)

AdapterSpec == AdapterInit /\ [][AdapterNext]_vars

(***************************************************************************)
(* File tools (FileSystemTool.ts, LogAnalysisTool.ts): one execution of a  *)
(* tool with a path argument supplied by the model.  A path is the         *)
(* sequence of its characters.                                             *)
(***************************************************************************)
\* process.cwd() of the backend
Cwd == <<"/", "w", "s">>

\* context.workspaceRoot: undefined, or the configured root /ws
WorkspaceRoots == {<<>>, <<Cwd>>}

\* context.workspaceRoot || process.cwd()
OrCwd(ctxRoot) == IF ctxRoot = <<>> THEN Cwd ELSE ctxRoot[1]

\* the path arguments: a, src/a, ., .., ../ws-o/x, /ws-o/x, /ws/a, /ws, /e/p
PathArguments ==
    {<<"a">>,
     <<"s", "r", "c", "/", "a">>,
     <<".">>,
     <<".", ".">>,
     <<".", ".", "/", "w", "s", "-", "o", "/", "x">>,
     <<"/", "w", "s", "-", "o", "/", "x">>,
     <<"/", "w", "s", "/", "a">>,
     <<"/", "w", "s">>,
     <<"/", "e", "/", "p">>}

CheckedTools == {"read_file", "write_file", "list_files"}
UncheckedTools == {"search_files", "generate_tests", "review_code", "analyze_logs"}
FileTools == CheckedTools \cup UncheckedTools

\* path.isAbsolute
isAbsolute(path) == Len(path) > 0 /\ path[1] = "/"

\* the segments of a path, split at "/"
RECURSIVE Split(_)
Split(path) ==
    IF path = <<>> THEN << <<>> >>
    ELSE LET rest == Split(Tail(path))
         IN IF Head(path) = "/" THEN << <<>> >> \o rest
            ELSE << <<Head(path)>> \o Head(rest) >> \o Tail(rest)

\* empty and "." segments dropped, ".." removes the segment before it
RECURSIVE Normalize(_, _)
Normalize(segments, stack) ==
    IF segments = <<>> THEN stack
    ELSE LET h == Head(segments)
         IN IF h = <<>> \/ h = <<".">>
            THEN Normalize(Tail(segments), stack)
            ELSE IF h = <<".", ".">>
            THEN Normalize(Tail(segments),
                           IF stack = <<>> THEN <<>>
                           ELSE SubSeq(stack, 1, Len(stack) - 1))
            ELSE Normalize(Tail(segments), Append(stack, h))

RECURSIVE JoinSegments(_)
JoinSegments(segments) ==
    IF segments = <<>> THEN <<>>
    ELSE <<"/">> \o Head(segments) \o JoinSegments(Tail(segments))

\* path.resolve: absolute (relative paths start at the cwd) and normalized
resolve(path) ==
    LET abs == IF isAbsolute(path) THEN path ELSE Cwd \o <<"/">> \o path
        segments == Normalize(Split(abs), <<>>)
    IN IF segments = <<>> THEN <<"/">> ELSE JoinSegments(segments)

\* path.join(a, b) with an absolute a
join(a, b) == resolve(a \o <<"/">> \o b)

\* String.prototype.startsWith
startsWith(str, prefix) ==
    Len(prefix) <= Len(str) /\ SubSeq(str, 1, Len(prefix)) = prefix

\* path.isAbsolute(filePath) ? filePath : path.join(workspaceRoot, filePath)
FullPath(workspaceRoot, path) ==
    IF isAbsolute(path) THEN path ELSE join(workspaceRoot, path)

\* the security check of read_file, write_file and list_files
AccessDenied(workspaceRoot, path) ==
    ~startsWith(resolve(FullPath(workspaceRoot, path)), resolve(workspaceRoot))

\* context.workspaceRoot ? `${context.workspaceRoot}/${filePath}` : filePath
TemplatePath(ctxRoot, path) ==
    IF ctxRoot # <<>> THEN ctxRoot[1] \o <<"/">> \o path ELSE path

\* path.dirname of a resolved path
dirname(path) ==
    LET segments == Normalize(Split(path), <<>>)
    IN IF Len(segments) <= 1 THEN <<"/">>
       ELSE JoinSegments(SubSeq(segments, 1, Len(segments) - 1))

FsCall(op, path) == [op |-> op, path |-> resolve(path)]

\* the filesystem calls of a tool in the order it makes them, each awaited
\* before the next
FsCalls(tool, ctxRoot, path) ==
    LET workspaceRoot == OrCwd(ctxRoot)
        fullPath == FullPath(workspaceRoot, path)
    IN CASE tool = "read_file" ->
              <<FsCall("stat", fullPath), FsCall("readFile", fullPath)>>
         [] tool = "write_file" ->
              <<FsCall("mkdir", dirname(resolve(fullPath))),
                FsCall("writeFile", fullPath)>>
         [] tool = "list_files" -> <<FsCall("readdir", fullPath)>>
         [] tool = "search_files" -> <<FsCall("readdir", fullPath)>>
         [] OTHER -> <<FsCall("readFile", TemplatePath(ctxRoot, path))>>

ToolInit ==
    /\ AgentInit
    /\ adapter = AdapterIdle
    /\ tracker = TrackerIdle /\ validation = ValidationIdle
    /\ fsTool \in
         {[FsToolIdle EXCEPT !.pc = "start", !.tool = t, !.workspaceRoot = r,
                             !.path = a] :
             t \in FileTools, r \in WorkspaceRoots, a \in PathArguments}

\* execute up to its first await: the containment check where the tool has
\* one, then the first filesystem call
Execute ==
    LET workspaceRoot == OrCwd(fsTool.workspaceRoot)
        fsCalls == FsCalls(fsTool.tool, fsTool.workspaceRoot, fsTool.path)
    IN /\ fsTool.pc = "start"
       /\ fsTool' =
             IF fsTool.tool \in CheckedTools
                /\ AccessDenied(workspaceRoot, fsTool.path)
             THEN [fsTool EXCEPT !.checked = TRUE,
                                 !.result = "Error: Access denied",
                                 !.pc = "done"]
             ELSE [fsTool EXCEPT !.checked = fsTool.tool \in CheckedTools,
                                 !.touched = {Head(fsCalls)},
                                 !.pending = Tail(fsCalls),
                                 !.pc = "awaitFs"]
       /\ UNCHANGED <<agentVars, adapter, tracker, validation>>

\* the awaited filesystem call resolved: the next call is made, or the
\* tool's result returned
FsResolves ==
    /\ fsTool.pc = "awaitFs"
    /\ fsTool' =
          IF fsTool.pending # <<>>
          THEN [fsTool EXCEPT !.touched = @ \cup {Head(fsTool.pending)},
                              !.pending = Tail(@)]
          ELSE [fsTool EXCEPT !.result = "ok", !.pc = "done"]
    /\ UNCHANGED <<agentVars, adapter, tracker, validation>>

\* the awaited filesystem call rejected: the catch block returns an error
\* text (search_files: the results found so far)
FsRejects(code) ==
    /\ fsTool.pc = "awaitFs"
    /\ fsTool' = [fsTool EXCEPT !.pending = <<>>,
                                !.result = "Error: " \o code, !.pc = "done"]
    /\ UNCHANGED <<agentVars, adapter, tracker, validation>>

FsErrorCodes == {"ENOENT", "EACCES"}

ToolNext ==
    \/ Execute
    \/ FsResolves
    \/ \E code \in FsErrorCodes : FsRejects(code)

ToolSpec == ToolInit /\ [][ToolNext]_vars

(***************************************************************************)
(* Properties                                                              *)
(***************************************************************************)
InFlight(cr) == ~Settled(cr)
Last(seq) == seq[Len(seq)]
\* the messages a step appended to the history object h
Appended(old, new) == SubSeq(new, Len(old) + 1, Len(new))
IdsOf(m) == {m.toolCalls[k].id : k \in 1..Len(m.toolCalls)}
NotFoundText(name) == Str("Tool '" \o name \o "' not found")
IsFallback(m) ==
    m.role = "assistant" /\ m.content = Str(FallbackText) /\ ~WantsTools(m)

\* C1: one invocation calls the Model Adapter at most 20 times, and when
\* each of 20 responses carried a tool call the invocation does not reject:
\* it resolves with the fallback message, which carries no tool calls.
C1_CeilingResolvesWithFallback ==
    \A c \in Calls :
        /\ calls[c].modelCalls <= maxIterations
        /\ calls[c].toolRounds = maxIterations =>
              /\ calls[c].pc # "rejected"
              /\ calls[c].pc = "resolved" =>
                    /\ Len(calls[c].returned) = 1
                    /\ IsFallback(calls[c].returned[1])

\* C2: on a session whose invocations did not overlap, every tool-role
\* message follows an assistant message, with only tool-role messages of the
\* same batch between them, and its id is the id of one of the tool calls of
\* that assistant message.
Correlated(msgs) ==
    \A i \in 1..Len(msgs) :
        msgs[i].role = "tool" =>
            \E j \in 1..(i - 1) :
                /\ msgs[j].role = "assistant"
                /\ \A k \in (j + 1)..i :
                      msgs[k].role = "tool" /\ msgs[k].id \in IdsOf(msgs[j])

C2_ToolMessagesCorrelated ==
    \A s \in Sessions \ overlapped : Correlated(getConversation(s))

C2_Witness ==
    \E s \in Sessions \ overlapped :
        LET msgs == getConversation(s)
        IN /\ \E i \in 2..Len(msgs) :
                 msgs[i].role = "tool" /\ msgs[i - 1].role = "tool"
           /\ \E i, j \in 1..Len(msgs) :
                 /\ msgs[i].role = "user" /\ msgs[j].role = "user"
                 /\ msgs[i].id # msgs[j].id

\* C3: the tool calls of a batch are dispatched one at a time in the order
\* of the response (call i+1 only once call i has yielded its result), and
\* the step that ends the batch appends its n tool-role messages in that
\* same order.
BatchIds(cr) ==
    [k \in 1..Len(cr.response[1].toolCalls) |-> cr.response[1].toolCalls[k].id]

DispatchedInOrder ==
    \A c \in Calls :
        calls[c].pc = "awaitTool" =>
            LET cr == calls[c]
            IN /\ cr.idx \in 1..Len(BatchIds(cr))
               /\ cr.dispatched = SubSeq(BatchIds(cr), 1, cr.idx)
               /\ Len(cr.toolResults) = cr.idx - 1
               /\ \A k \in 1..Len(cr.toolResults) :
                     cr.toolResults[k].id = BatchIds(cr)[k]

AppendedInOrder ==
    \A c \in Calls :
        (calls[c].pc = "awaitTool" /\ calls'[c].pc \in {"awaitModel", "resolved"}) =>
            LET cr == calls[c]
                new == Appended(heap[cr.hist], heap'[cr.hist])
            IN /\ Len(new) = Len(BatchIds(cr))
               /\ \A k \in 1..Len(new) :
                     new[k].role = "tool" /\ new[k].id = BatchIds(cr)[k]

C4_FaultIsolation ==
    [][\A c \in Calls :
         (calls[c].pc = "awaitTool" /\ calls'[c] # calls[c]) =>
            LET cr == calls[c]
                n == Len(BatchIds(cr))
                new == Appended(heap[cr.hist], heap'[cr.hist])
            IN /\ calls'[c].pc # "rejected"
               /\ cr.idx < n =>
                     /\ calls'[c].pc = "awaitTool"
                     /\ calls'[c].idx = cr.idx + 1
               /\ cr.idx = n =>
                     /\ calls'[c].pc \in {"awaitModel", "resolved"}
                     /\ Len(new) = n
                     /\ \A k \in 1..n :
                           /\ new[k].role = "tool"
                           /\ new[k].id = BatchIds(cr)[k]
                     /\ \A k \in 1..(n - 1) :
                           cr.outcomes[k] = "resolve" =>
                              /\ new[k].toolResults[1].error = Undefined
                              /\ new[k].toolResults[1].result \in
                                    {t.returns : t \in
                                        {u \in AllTools :
                                            u.name = cr.response[1].toolCalls[k].name}}
      ]_vars

\* C5: a value thrown by a tool never makes processMessage reject (it
\* rejects with Model Adapter errors only), and the ToolResult of a call that
\* threw carries a populated error description.
Populated(x) == x.t = "string" /\ x.v # ""

C5_ThrownValueContained ==
    \A c \in Calls :
        /\ calls[c].pc = "rejected" => calls[c].error[1] \in ModelErrors
        /\ \A k \in 1..Len(calls[c].toolResults) :
              calls[c].outcomes[k] = "throw" =>
                  Populated(calls[c].toolResults[k].error)

\* C6: a tool call without registry entry yields the not-found ToolResult
\* with a null payload; once its batch is over the history holds its
\* tool-role message, and the next model call is sent that message.
NotFoundResult(tc) == ToolResult(tc.id, tc.name, Null, NotFoundText(tc.name))

BatchInProgress(m) ==
    \E c \in Calls : calls[c].pc = "awaitTool" /\ calls[c].response = <<m>>

C6_NotFoundFedBack ==
    /\ \A c \in Calls : \A k \in 1..Len(calls[c].toolResults) :
          LET tc == calls[c].response[1].toolCalls[k]
          IN tc.name \notin DOMAIN tools =>
                calls[c].toolResults[k] = NotFoundResult(tc)
    /\ \A h \in 1..Len(heap) : \A j \in 1..Len(heap[h]) :
          \A k \in 1..Len(heap[h][j].toolCalls) :
             LET m == heap[h][j]
                 tc == m.toolCalls[k]
             IN (tc.name \notin DOMAIN tools /\ ~BatchInProgress(m)) =>
                   /\ \E i \in (j + 1)..Len(heap[h]) :
                         /\ heap[h][i].role = "tool"
                         /\ heap[h][i].id = tc.id
                         /\ heap[h][i].toolResults = <<NotFoundResult(tc)>>
                   /\ \A c \in Calls :
                         (calls[c].pc = "awaitModel" /\ calls[c].inv = m.id[1]
                          /\ calls[c].iterations = m.id[2] + 1) =>
                            \E i \in 1..Len(calls[c].sent) :
                               calls[c].sent[i].toolResults = <<NotFoundResult(tc)>>

\* C7: the step in which the Model Adapter resolves with a response without
\* tool calls (absent or empty) makes processMessage resolve with exactly
\* that response, a response with tool calls is not returned, a resolved
\* invocation makes no further step, and on a session without overlap and
\* still stored the returned response is the last message of the history.
C7_Step ==
    \A c \in Calls :
        LET cr == calls[c]
            new == Appended(heap[cr.hist], heap'[cr.hist])
        IN /\ (cr.pc = "awaitModel" /\ calls'[c] # cr /\ Len(new) > 0) =>
                 /\ Len(new) = 1
                 /\ new[1].role = "assistant"
                 /\ WantsTools(new[1]) => calls'[c].pc = "awaitTool"
                 /\ ~WantsTools(new[1]) =>
                       /\ calls'[c].pc = "resolved"
                       /\ calls'[c].returned = new
                       /\ calls'[c].modelCalls = cr.modelCalls
                       /\ (cr.sid \notin overlapped /\ conversations[cr.sid] = cr.hist) =>
                             Last(getConversation(cr.sid)') = new[1]
           /\ (cr.pc = "resolved" /\ calls'[c] # cr) => calls'[c].inv > cr.inv

C8_Step ==
    \A c \in Calls :
        LET cr == calls[c]
        IN /\ (cr.pc = "awaitModel" /\ calls'[c] # cr
               /\ heap'[cr.hist] = heap[cr.hist]) =>
                 /\ calls'[c].pc = "rejected"
                 /\ calls'[c].returned = <<>>
                 /\ Len(calls'[c].error) = 1
                 /\ calls'[c].error[1] \in ModelErrors
                 /\ calls'[c].modelCalls = cr.modelCalls
                 /\ heap' = heap
           /\ (cr.pc = "rejected" /\ calls'[c] # cr) => calls'[c].inv > cr.inv
           /\ (heap' # heap) =>
                 \/ started' = started + 1
                 \/ \E d \in Calls : InFlight(calls[d]) /\ calls'[d] # calls[d]

C8_ModelErrorPropagates == [][C8_Step]_vars

C8_Witness ==
    \E c \in Calls :
        /\ calls[c].pc = "rejected"
        /\ calls[c].modelCalls = 2
        /\ calls[c].error[1] \in ModelErrors

\* C9: when every model call and every tool execution eventually settles,
\* an invocation in flight eventually resolves or rejects.
C9_EventuallySettles ==
    \A c \in Calls : InFlight(calls[c]) ~> Settled(calls[c])

C9_Witness ==
    \E c \in Calls :
        /\ calls[c].pc = "resolved"
        /\ calls[c].modelCalls = maxIterations
        /\ IsFallback(calls[c].returned[1])

\* C10: every message of the history stored for a session, and every message
\* sent to the model for an invocation on that session, was appended by an
\* invocation made with that session id; and a step changes the history
\* stored for a session only if it is a step of an invocation on that
\* session or removes the session's conversation.
OwnMessages(msgs, s) ==
    \A i \in 1..Len(msgs) : invSid[msgs[i].id[1]] = s

C10_Inv ==
    /\ \A s \in Sessions : OwnMessages(getConversation(s), s)
    /\ \A c \in Calls : InFlight(calls[c]) => OwnMessages(calls[c].sent, calls[c].sid)

C10_Step ==
    \A s \in Sessions :
        getConversation(s)' # getConversation(s) =>
            \/ \E c \in Calls : calls'[c] # calls[c] /\ calls'[c].sid = s
            \/ /\ conversations'[s] = 0
               /\ calls' = calls
               /\ \/ \A t \in Sessions : conversations'[t] = 0
                  \/ \A t \in Sessions \ {s} : conversations'[t] = conversations[t]

C10_SessionIsolation == [][C10_Inv' /\ C10_Step]_vars

C10_Witness ==
    /\ started = 2
    /\ invSid = <<"s1", "s2">>
    /\ ~HasConversation("s1")
    /\ Len(getConversation("s2")) >= 3
    /\ \E c \in Calls : calls[c].sid = "s1" /\ calls[c].pc = "awaitModel"
                        /\ calls[c].iterations = 2

\* C11: a clear of a session leaves getConversation absent; the history
\* stored for a session holds no message of an invocation started before the
\* session's last clear and begins with a user message; an invocation started
\* after the clear is sent no message from before it; and an invocation that
\* finds no stored history starts one holding just its user message.
AfterClear(msgs, s) ==
    \A i \in 1..Len(msgs) : msgs[i].id[1] > clearedAt[s]

C11_Inv ==
    \A s \in Sessions :
        /\ AfterClear(getConversation(s), s)
        /\ HasConversation(s) => getConversation(s)[1].role = "user"
        /\ \A c \in Calls :
              (InFlight(calls[c]) /\ calls[c].sid = s
               /\ calls[c].inv > clearedAt[s]) => AfterClear(calls[c].sent, s)

C11_Step ==
    /\ \A s \in Sessions :
          clearedAt'[s] # clearedAt[s] => ~HasConversation(s)'
    /\ \A c \in Calls, s \in Sessions :
          (Settled(calls[c]) /\ InFlight(calls'[c]) /\ calls'[c].sid = s
           /\ ~HasConversation(s)) =>
              /\ getConversation(s)' = <<UserMessage(calls'[c].inv)>>
              /\ calls'[c].sent = <<UserMessage(calls'[c].inv)>>

C11_ClearStartsAfresh == [][C11_Inv' /\ C11_Step]_vars

C11_Witness ==
    \E s \in Sessions, c \in Calls :
        /\ clearedAt[s] >= 1
        /\ calls[c].sid = s /\ calls[c].inv > clearedAt[s]
        /\ calls[c].pc = "awaitModel" /\ calls[c].iterations = 2
        /\ \A d \in Calls \ {c} : Settled(calls[d])
        /\ \E h \in 1..Len(heap) :
              /\ h # calls[c].hist
              /\ Len(heap[h]) >= 2
              /\ invSid[heap[h][1].id[1]] = s

\* C12: once the batch of an assistant message with n tool calls is over,
\* the history holds after it exactly n tool-role messages answering it, one
\* per tool call, each with exactly one ToolResult whose id and name are the
\* tool call's and with the tool call's id as message id; and no call of a
\* batch in progress is dispatched twice.
AnswersTo(msgs, j) ==
    {i \in (j + 1)..Len(msgs) :
        msgs[i].role = "tool" /\ msgs[i].id \in IdsOf(msgs[j])}

C12_EveryCallAnswered ==
    /\ \A h \in 1..Len(heap) : \A j \in 1..Len(heap[h]) :
          LET m == heap[h][j]
          IN (WantsTools(m) /\ ~BatchInProgress(m)) =>
                /\ Cardinality(AnswersTo(heap[h], j)) = Len(m.toolCalls)
                /\ \A k \in 1..Len(m.toolCalls) :
                      \E i \in AnswersTo(heap[h], j) :
                         /\ heap[h][i].id = m.toolCalls[k].id
                         /\ Len(heap[h][i].toolResults) = 1
                         /\ heap[h][i].toolResults[1].id = m.toolCalls[k].id
                         /\ heap[h][i].toolResults[1].name = m.toolCalls[k].name
    /\ \A c \in Calls : \A i, j \in 1..Len(calls[c].dispatched) :
          calls[c].dispatched[i] = calls[c].dispatched[j] => i = j

\* C13: the registry holds one tool per registered name, the one registered
\* last under it; a tool call is dispatched to the tool the registry holds at
\* that moment, and a call that resolves yields what that tool returns.
RegisteredNames == {registered[i].name : i \in 1..Len(registered)}

LastRegistered(name) ==
    LET idx == {i \in 1..Len(registered) : registered[i].name = name}
    IN registered[CHOOSE i \in idx : \A j \in idx : j <= i]

C13_Inv ==
    /\ DOMAIN tools = RegisteredNames
    /\ \A n \in DOMAIN tools : tools[n] = LastRegistered(n)

C13_Step ==
    \A c \in Calls :
        /\ (calls'[c].pc = "awaitTool"
            /\ calls'[c].dispatched # calls[c].dispatched) =>
              LET tc == calls'[c].response[1].toolCalls[calls'[c].idx]
              IN calls'[c].tool =
                    IF tc.name \in RegisteredNames
                    THEN <<LastRegistered(tc.name)>> ELSE <<>>
        /\ (calls[c].pc = "awaitTool"
            /\ Len(calls'[c].toolResults) = Len(calls[c].toolResults) + 1
            /\ Last(calls'[c].outcomes) = "resolve") =>
              Last(calls'[c].toolResults).result = calls[c].tool[1].returns

C13_LastRegistrationWins == [][C13_Inv' /\ C13_Step]_vars

C13_Witness ==
    /\ Len(registered) = Len(StartupTools) + 1
    /\ Cardinality(DOMAIN tools) = Len(StartupTools)
    /\ \E c \in Calls :
          /\ calls[c].pc = "awaitModel"
          /\ \E k \in 1..Len(calls[c].toolResults) :
                /\ calls[c].toolResults[k].name = "list_files"
                /\ calls[c].toolResults[k].result = ListFilesToolRecursive.returns

\* C14: a step leaves every history object a prefix of what it becomes, and
\* the history stored for a session is replaced only by removing it (clear)
\* or by creating one where none is stored.
IsPrefix(a, b) == Len(a) <= Len(b) /\ SubSeq(b, 1, Len(a)) = a

C14_Step ==
    /\ Len(heap') >= Len(heap)
    /\ \A h \in 1..Len(heap) : IsPrefix(heap[h], heap'[h])
    /\ \A s \in Sessions :
          /\ conversations'[s] \notin {0, conversations[s]} =>
                conversations[s] = 0 /\ conversations'[s] = Len(heap) + 1
          /\ (HasConversation(s) /\ HasConversation(s)') =>
                IsPrefix(getConversation(s), getConversation(s)')

C14_AppendOnly == [][C14_Step]_vars

C14_Witness ==
    \E s \in overlapped :
        /\ HasConversation(s)
        /\ Len(getConversation(s)) >= 6
        /\ \E i, j \in 1..Len(getConversation(s)) :
              /\ getConversation(s)[i].role = "tool"
              /\ getConversation(s)[j].role = "tool"
              /\ getConversation(s)[i].id[1] # getConversation(s)[j].id[1]

\* C15: an invocation that starts on a session with a stored history uses
\* that very history object, whatever other invocations are in flight on it,
\* and appends its user message at once.
C15_Step ==
    \A c \in Calls :
        (Settled(calls[c]) /\ InFlight(calls'[c])
         /\ HasConversation(calls'[c].sid)) =>
            LET h == conversations[calls'[c].sid]
            IN /\ calls'[c].hist = h
               /\ heap'[h] = Append(heap[h], UserMessage(calls'[c].inv))
               /\ \A d \in Calls \ {c} :
                     (InFlight(calls[d]) /\ calls[d].hist = h) =>
                        /\ InFlight(calls'[d])
                        /\ calls'[d].hist = calls'[c].hist

C15_NoMutualExclusion == [][C15_Step]_vars

\* the second invocation's message sits between the first one's
\* tool-requesting assistant message and its tool-role message
C15_Witness ==
    \E h \in 1..Len(heap) : \E j, i, k \in 1..Len(heap[h]) :
        /\ j < i /\ i < k
        /\ WantsTools(heap[h][j])
        /\ heap[h][i].role \in {"user", "assistant"}
        /\ heap[h][i].id[1] # heap[h][j].id[1]
        /\ heap[h][k].role = "tool"
        /\ heap[h][k].id \in IdsOf(heap[h][j])
        /\ \A l \in (j + 1)..(k - 1) : heap[h][l].role # "tool"

\* C16: no two invocations are in flight on one session at the same time.
C16_SerializedPerSession ==
    \A c, d \in Calls :
        (c # d /\ InFlight(calls[c]) /\ InFlight(calls[d])) =>
            calls[c].sid # calls[d].sid

\* C17: a client request that has resolved has resolved with the message
\* processMessage returned for that request.
C17_AnswerIsFinalResponse ==
    \A c \in Calls :
        (client[c] # <<>> /\ client[c] # <<RequestTimeout>>) =>
            /\ calls[c].pc = "resolved"
            /\ client[c] = calls[c].returned

\* C18: in the Groq adapter a provider rejection with status 400 and code
\* tool_use_failed is not propagated: the request is sent once more, with
\* the same messages and without tools, and the adapter returns a message
\* without tool calls whose content is the retry's content or the apology.
C18_ToolUseFailedRetried ==
    (adapter.provider = "groq" /\ Len(adapter.failures) > 0
     /\ adapter.failures[1] = ToolUseFailed) =>
        /\ adapter.error # <<ToolUseFailed>>
        /\ adapter.withTools = <<TRUE, FALSE>>
        /\ adapter.request = FormatGroq(adapter.messages)
        /\ adapter.pc = "resolved" =>
              /\ ~WantsTools(adapter.out[1])
              /\ adapter.out[1].content =
                    OrElse(adapter.raw[1].content, Str(GroqApology))

\* C19: in the OpenAI and Groq adapters a reply with several tool calls never
\* makes generateResponse throw: the message returned holds the tool calls
\* whose arguments are valid JSON (for Groq, empty arguments stand for {}),
\* in their original order.
WellFormed(tc) ==
    IF adapter.provider = "groq" THEN JsonValid(OrEmptyObject(tc.arguments))
    ELSE JsonValid(tc.arguments)

C19_UnparsableCallDropped ==
    (adapter.provider \in {"openai", "groq"} /\ adapter.failures = <<>>
     /\ adapter.pc \in {"resolved", "rejected"} /\ adapter.costLog.t = "array"
     /\ adapter.raw # <<>> /\ Len(adapter.raw[1].tool_calls) > 1) =>
        /\ adapter.pc = "resolved"
        /\ adapter.out[1].toolCalls =
              ParsedToolCalls(SelectSeq(adapter.raw[1].tool_calls, WellFormed))

\* C20: in every adapter the request holds, for each tool-role message of
\* the history, a tool-result message with the id of the tool call it
\* answers, for each assistant message with tool calls those calls with their
\* ids, and every tool result refers to a tool call of an earlier assistant
\* message of the request.
RequestIds(request, upTo) ==
    UNION {{request[j].tool_calls[k].id : k \in 1..Len(request[j].tool_calls)} :
             j \in {j \in 1..upTo : request[j].role = "assistant"}}

C20_ToolResultsCorrelated ==
    adapter.pc \notin {"idle", "start"} =>
        LET request == adapter.request
            messages == adapter.messages
            offset == Len(request) - Len(messages)
        IN /\ \A i \in 1..Len(messages) :
                 /\ messages[i].role = "tool" =>
                       /\ request[i + offset].role = "tool"
                       /\ request[i + offset].tool_call_id = <<messages[i].id>>
                 /\ WantsTools(messages[i]) =>
                       /\ request[i + offset].role = "assistant"
                       /\ request[i + offset].tool_calls = messages[i].toolCalls
           /\ \A i \in 1..Len(request) :
                 request[i].role = "tool" =>
                    /\ Len(request[i].tool_call_id) = 1
                    /\ request[i].tool_call_id[1] \in RequestIds(request, i - 1)

\* C21: in the OpenAI adapter no failure of the cost tracker makes
\* generateResponse reject: once the provider has replied, the call settles
\* as the translation of the reply alone settles (the assistant message of
\* the reply is returned).
C21_CostFailureContained ==
    (adapter.provider = "openai" /\ adapter.raw # <<>>
     /\ adapter.pc \in {"resolved", "rejected"}) =>
        /\ adapter.out = ParseOpenAI(adapter.raw[1]).out
        /\ adapter.error = ParseOpenAI(adapter.raw[1]).error

\* C22: usage recording is fire-and-forget: once the provider has replied
\* generateResponse has settled, in no state does it wait for the cost
\* tracker.
C22_FireAndForget ==
    adapter.raw # <<>> => adapter.pc \in {"resolved", "rejected"}

\* C23: read_file, write_file and list_files make a filesystem call only on
\* a path that resolves to the workspace root or to a descendant of it; for
\* every other path they answer access denied and make no filesystem call.
\* (A descendant of /ws is a path below /ws/, which /ws-o/x is not.)
Contained(path, workspaceRoot) ==
    \/ resolve(path) = resolve(workspaceRoot)
    \/ startsWith(resolve(path), resolve(workspaceRoot) \o <<"/">>)

C23_ContainedOrDenied ==
    (fsTool.tool \in CheckedTools /\ fsTool.pc # "start") =>
        LET workspaceRoot == OrCwd(fsTool.workspaceRoot)
        IN IF Contained(FullPath(workspaceRoot, fsTool.path), workspaceRoot)
           THEN fsTool.result # "Error: Access denied"
           ELSE /\ fsTool.result = "Error: Access denied"
                /\ fsTool.touched = {}

\* C30: each of the seven file tools has tested its path for containment
\* before its first filesystem call, and every read, write or listing it
\* makes is on a path within the workspace root.
C30_EveryFileToolChecks ==
    (fsTool.tool \in FileTools /\ fsTool.pc # "start") =>
        /\ fsTool.checked
        /\ \A call \in fsTool.touched :
              call.op # "mkdir" =>
                 Contained(call.path, OrCwd(fsTool.workspaceRoot))

\* C24: for every tool call whose tool is registered the status callback is
\* invoked exactly once, and for no other call; when it has been invoked for
\* the call being executed, that call's execute function has not settled and
\* no tool-role message of the batch is in the history.
AnnouncedIds(cr) ==
    LET tcs == cr.response[1].toolCalls
        reg == {k \in 1..Len(cr.dispatched) : tcs[k].name \in DOMAIN tools}
        Nth[n \in 0..Len(cr.dispatched)] ==
            IF n = 0 THEN <<>>
            ELSE IF n \in reg THEN Append(Nth[n - 1], tcs[n].id)
            ELSE Nth[n - 1]
    IN Nth[Len(cr.dispatched)]

C24_StatusOncePerRegisteredCall ==
    \A c \in Calls :
        LET cr == calls[c]
        IN /\ cr.response # <<>> => cr.statuses = AnnouncedIds(cr)
           /\ cr.pc = "awaitTool" =>
                 /\ Len(cr.dispatched) = cr.idx
                 /\ Len(cr.outcomes) = cr.idx - 1
                 /\ \A j \in 1..Len(heap[cr.hist]) :
                       heap[cr.hist][j].role = "tool" =>
                          heap[cr.hist][j].id \notin IdsOf(cr.response[1])

\* the second call of a batch is announced, the first had no tool
C24_Witness ==
    \E c \in Calls :
        /\ calls[c].pc = "awaitTool" /\ calls[c].idx = 2
        /\ calls[c].response[1].toolCalls[1].name = "nonexistent_tool"
        /\ calls[c].statuses = <<calls[c].response[1].toolCalls[2].id>>
        /\ client[c] # <<>>

\* C25: every ToolResult has an error description or a success payload and
\* never both: a set error field comes with a null payload, and a resolved
\* execute function gives no error and the resolved value as payload.
C25_ErrorXorPayload ==
    \A c \in Calls : \A k \in 1..Len(calls[c].toolResults) :
        LET r == calls[c].toolResults[k]
            resolved == calls[c].outcomes[k] = "resolve"
        IN /\ r.error # Undefined => r.result = Null
           /\ resolved =>
                 /\ r.error = Undefined
                 /\ r.result \in {t.returns : t \in {u \in AllTools : u.name = r.name}}
           /\ r.error # Undefined \/ resolved

\* C26: a session's history leaves the store only in a step of
\* clearConversation for that session or of clearAllConversations; every
\* other step (a resolving or rejecting processMessage, iteration
\* exhaustion, a disconnect) leaves it stored.
C26_Step ==
    \A s \in Sessions :
        (HasConversation(s) /\ ~HasConversation(s)') =>
            \/ /\ clearedAt'[s] # clearedAt[s]
               /\ \A t \in Sessions \ {s} : conversations'[t] = conversations[t]
               /\ calls' = calls /\ sockets' = sockets
            \/ /\ \A t \in Sessions : conversations'[t] = 0
               /\ calls' = calls /\ sockets' = sockets

C26_EvictedOnlyByClear == [][C26_Step]_vars

\* the client of a session with a completed invocation is gone, the history
\* is stored
C26_Witness ==
    \E s \in Sessions :
        /\ s \notin LiveSessions
        /\ Len(getConversation(s)) >= 2
        /\ \E c \in Calls : calls[c].sid = s /\ calls[c].pc = "resolved"

\* C27: each round's Model Adapter call gets the whole history object of the
\* invocation in append order (with this invocation's user message and all
\* that was sent in the round before, followed by that round's assistant
\* message and its tool-role messages) and every tool of the registry.
C27_Step ==
    \A c \in Calls :
        (calls'[c].pc = "awaitModel"
         /\ calls'[c].modelCalls # calls[c].modelCalls) =>
            LET cr == calls[c]
                n == calls'[c]
            IN /\ n.sent = heap'[n.hist]
               /\ n.offered = ToolValues(tools')
               /\ \E k \in 1..Len(n.sent) : n.sent[k] = UserMessage(n.inv)
               /\ cr.pc = "awaitTool" =>
                     /\ IsPrefix(cr.sent, n.sent)
                     /\ \E j \in (Len(cr.sent) + 1)..Len(n.sent) :
                           /\ n.sent[j] = cr.response[1]
                           /\ \A k \in 1..Len(cr.response[1].toolCalls) :
                                 \E i \in (j + 1)..Len(n.sent) :
                                    /\ n.sent[i].role = "tool"
                                    /\ n.sent[i].id = cr.response[1].toolCalls[k].id

C27_FullHistoryAndTools == [][C27_Step]_vars

\* second round after a three-call batch, with a tool registered at run time
C27_Witness ==
    \E c \in Calls :
        /\ calls[c].pc = "awaitModel" /\ calls[c].iterations = 2
        /\ Len(calls[c].sent) = 5
        /\ ListFilesToolRecursive \in calls[c].offered

\* C28: a session no invocation has run for has no history; the invocations
\* of a session since its last clear share one history object, the stored
\* one, and what is sent to the model holds the user messages of all of them
\* up to the sending one, in invocation order.
SinceClear(s) ==
    {i \in 1..started : invSid[i] = s /\ i > clearedAt[s]}

PositionOf(msgs, m) == CHOOSE k \in 1..Len(msgs) : msgs[k] = m

C28_LazyThenShared ==
    /\ \A s \in Sessions :
          (\A i \in 1..started : invSid[i] # s) => ~HasConversation(s)
    /\ \A s \in Sessions :
          SinceClear(s) # {} =>
              /\ HasConversation(s)
              /\ \A i \in SinceClear(s) :
                    \E k \in 1..Len(getConversation(s)) :
                        getConversation(s)[k] = UserMessage(i)
    /\ \A c \in Calls :
          LET cr == calls[c]
          IN (cr.pc # "idle" /\ cr.inv \in SinceClear(cr.sid)) =>
                /\ cr.hist = conversations[cr.sid]
                /\ \A i \in SinceClear(cr.sid) :
                      (InFlight(cr) /\ i <= cr.inv) =>
                         /\ \E k \in 1..Len(cr.sent) : cr.sent[k] = UserMessage(i)
                         /\ \A j \in SinceClear(cr.sid) :
                               (i < j /\ j <= cr.inv) =>
                                  PositionOf(cr.sent, UserMessage(i))
                                      < PositionOf(cr.sent, UserMessage(j))

\* the second invocation of a session sends the completed first turn
C28_Witness ==
    \E c \in Calls :
        /\ started = 2 /\ invSid = <<"s1", "s1">>
        /\ clearedAt["s1"] = 0
        /\ calls[c].inv = 2 /\ calls[c].pc = "awaitModel"
        /\ \A d \in Calls \ {c} : calls[d].pc = "resolved"
        /\ Len(calls[c].sent) >= 3
        /\ calls[c].sent[1] = UserMessage(1)
        /\ Last(calls[c].sent) = UserMessage(2)

\* C29: an invocation its session was cleared under holds a history object
\* that is not the stored one; its steps append to that object, leave the
\* store alone and resolve as without the clear; the stored history of the
\* session holds nothing of it, and an invocation started after the clear
\* sends only its own user message.
Detached(cr) == cr.pc # "idle" /\ cr.inv <= clearedAt[cr.sid]

C29_Inv ==
    \A c \in Calls :
        Detached(calls[c]) =>
            /\ calls[c].hist # conversations[calls[c].sid]
            /\ \A j \in 1..Len(getConversation(calls[c].sid)) :
                  getConversation(calls[c].sid)[j].id[1] # calls[c].inv

C29_Step ==
    /\ \A c \in Calls :
          (Detached(calls[c]) /\ InFlight(calls[c]) /\ calls'[c] # calls[c]) =>
              LET cr == calls[c]
                  new == Appended(heap[cr.hist], heap'[cr.hist])
              IN /\ conversations' = conversations
                 /\ getConversation(cr.sid)' = getConversation(cr.sid)
                 /\ IsPrefix(heap[cr.hist], heap'[cr.hist])
                 /\ cr.pc = "awaitModel" =>
                       \/ calls'[c].pc = "rejected" /\ new = <<>>
                       \/ /\ Len(new) = 1 /\ new[1].role = "assistant"
                          /\ IF WantsTools(new[1])
                             THEN calls'[c].pc = "awaitTool"
                             ELSE /\ calls'[c].pc = "resolved"
                                  /\ calls'[c].returned = <<new[1]>>
    /\ \A c \in Calls, s \in Sessions :
          (Settled(calls[c]) /\ InFlight(calls'[c]) /\ calls'[c].sid = s
           /\ clearedAt[s] > 0
           /\ \A i \in 1..started : invSid[i] = s => i <= clearedAt[s]) =>
              /\ calls'[c].sent = <<UserMessage(calls'[c].inv)>>
              /\ getConversation(s)' = calls'[c].sent

C29_ClearUnderInFlightCall == [][C29_Inv' /\ C29_Step]_vars

\* cleared while its tool ran, the first invocation resolved on its detached
\* object; the invocation started after the clear has its own history
C29_Witness ==
    \E c, d \in Calls :
        /\ calls[c].inv = 1 /\ calls[d].inv = 2
        /\ calls[c].sid = calls[d].sid
        /\ clearedAt[calls[c].sid] = 1
        /\ calls[c].pc = "resolved" /\ calls[c].toolRounds = 1
        /\ Len(heap[calls[c].hist]) = 4
        /\ calls[d].hist = conversations[calls[d].sid]
        /\ getConversation(calls[d].sid)[1] = UserMessage(2)
        /\ \A j \in 1..Len(getConversation(calls[d].sid)) :
              getConversation(calls[d].sid)[j].id[1] = 2

\* C31: the step in which the client's 60 second timer fires only rejects
\* the client's promise: no invocation, history, conversation or emitted
\* event changes, and an invocation in flight whose client gave up can still
\* take its next step (the model or the tool settling).
C31_Step ==
    \A c \in Calls :
        /\ (client[c] = <<>> /\ client'[c] = <<RequestTimeout>>) =>
              /\ calls' = calls
              /\ heap' = heap
              /\ conversations' = conversations
              /\ requests' = requests
              /\ tools' = tools
        /\ (client[c] = <<RequestTimeout>> /\ calls[c].pc = "awaitModel") =>
              ENABLED ModelSettles(c)
        /\ (client[c] = <<RequestTimeout>> /\ calls[c].pc = "awaitTool") =>
              ENABLED ToolSettles(c)

C31_TimeoutOnlyRejectsClient == [][C31_Step]_vars

\* the client gave up in the first round and the invocation went on to
\* execute a tool, append its result and ask the model again
C31_Witness ==
    \E c \in Calls :
        /\ client[c] = <<RequestTimeout>>
        /\ calls[c].pc = "awaitModel"
        /\ calls[c].toolRounds >= 1
        /\ Last(heap[calls[c].hist]).role = "tool"
        /\ Last(heap[calls[c].hist]).id[1] = calls[c].inv

Terminals(ev) == {i \in 1..Len(ev) : ev[i].terminal}

\* the request of slot c was handled to its end
Handled(c) ==
    /\ requests[c].data # <<>>
    /\ requests[c].data[1] = ValidData => Settled(calls[c])

\* C32: every agent_request handled to its end, whatever its payload, got
\* exactly one terminal event, the final agent_response with the message
\* processMessage returned or an error event, and it is the last event
\* emitted for the request; a request still being handled got none yet.
C32_ExactlyOneTerminalEvent ==
    \A c \in Calls :
        requests[c].data # <<>> =>
            LET ev == requests[c].emitted
            IN /\ Cardinality(Terminals(ev)) <= 1
               /\ \A i \in Terminals(ev) : i = Len(ev)
               /\ Handled(c) <=> Terminals(ev) # {}
               /\ \A i \in Terminals(ev) :
                     ev[i].event = "agent_response" =>
                        /\ calls[c].pc = "resolved"
                        /\ ev[i].message = calls[c].returned

\* the message text of a payload is missing or empty
NoMessageText(data) == Nullish(data) \/ ~Truthy(data.message)

\* C33: the step that handles an agent_request whose message text is missing
\* or empty emits the error event 'Message is required' and nothing else,
\* and does not call processMessage: no invocation starts, no conversation
\* is created and no history changes.
C33_Step ==
    \A c \in Calls :
        (requests'[c] # requests[c] /\ requests'[c].data # <<>>
         /\ requests'[c].data # requests[c].data
         /\ NoMessageText(requests'[c].data[1])) =>
            /\ requests'[c].emitted = <<ErrorEvent(Str("Message is required"))>>
            /\ calls' = calls
            /\ started' = started
            /\ conversations' = conversations
            /\ heap' = heap

C33_MessageRequired == [][C33_Step]_vars

\* C34: a socket gets its session id when it connects, an id no connected
\* socket has and under which nothing was done, and keeps it while it is
\* connected; two connected sockets never have the same id; every
\* invocation, every request and every clear_conversation runs under the id
\* of a connected socket.
C34_Step ==
    /\ \A k \in SocketIds :
          /\ (sockets[k] # NoSession /\ sockets'[k] # NoSession) =>
                sockets'[k] = sockets[k]
          /\ (sockets[k] = NoSession /\ sockets'[k] # NoSession) =>
                /\ sockets'[k] \in Sessions
                /\ sockets'[k] \notin LiveSessions
                /\ ~HasConversation(sockets'[k])
                /\ \A i \in 1..started : invSid[i] # sockets'[k]
          /\ \A j \in SocketIds :
                (j # k /\ sockets'[k] # NoSession) => sockets'[j] # sockets'[k]
    /\ started' # started =>
          /\ started' = started + 1
          /\ invSid'[started'] \in LiveSessions
    /\ \A c \in Calls :
          (\/ requests'[c].sid # requests[c].sid
           \/ requests'[c].data # requests[c].data
           \/ ~IsPrefix(requests[c].emitted, requests'[c].emitted)) =>
                requests'[c].sid \in LiveSessions
    /\ \A s \in Sessions :
          (conversations'[s] # conversations[s] /\ s \notin LiveSessions) =>
              \A t \in Sessions : conversations'[t] = 0 /\ clearedAt'[t] = started

C34_OneSessionPerSocket == [][C34_Step]_vars

\* two connected sockets, each with a conversation under its own session id
C34_Witness ==
    /\ \A k \in SocketIds : sockets[k] # NoSession /\ HasConversation(sockets[k])
    /\ sockets["k1"] # sockets["k2"]

\* C35: the step that ends an invocation by exhaustion appends the
\* tool-role messages of the 20th round and nothing after them, the
\* returned fallback message is in no history, and the step that starts the
\* next invocation of a session appends its user message directly after the
\* messages the stored history holds.
C35_Step ==
    /\ \A c \in Calls :
          LET cr == calls[c]
              new == Appended(heap[cr.hist], heap'[cr.hist])
          IN (InFlight(cr) /\ calls'[c].pc = "resolved"
              /\ IsFallback(calls'[c].returned[1])) =>
                /\ cr.iterations = maxIterations
                /\ Len(new) = Len(cr.response[1].toolCalls)
                /\ \A k \in 1..Len(new) : new[k].role = "tool"
                /\ Last(heap'[cr.hist]).role = "tool"
                /\ Last(heap'[cr.hist]).toolResults[1].id \in IdsOf(cr.response[1])
    /\ \A h \in 1..Len(heap') :
          \A i \in 1..Len(heap'[h]) : ~IsFallback(heap'[h][i])
    /\ started' # started =>
          LET s == invSid'[started']
          IN HasConversation(s) =>
                /\ conversations'[s] = conversations[s]
                /\ heap'[conversations[s]] =
                      Append(heap[conversations[s]], UserMessage(started'))

C35_FallbackNotAppended == [][C35_Step]_vars

\* an invocation ended by exhaustion and the session's next user message
\* stands directly after the tool-role message of the 20th round
C35_Witness ==
    \E s \in Sessions :
        \E i \in 2..Len(getConversation(s)) :
            /\ getConversation(s)[i] = UserMessage(2)
            /\ getConversation(s)[i - 1].role = "tool"
            /\ getConversation(s)[i - 1].toolResults[1].id[1] = 1
            /\ getConversation(s)[i - 1].toolResults[1].id[2] = maxIterations

\* the messages of the history that invocation inv pushed
PushedBy(msgs, inv) ==
    {i \in 1..Len(msgs) :
        IF msgs[i].role = "tool" THEN msgs[i].toolResults[1].id[1] = inv
        ELSE msgs[i].id[1] = inv}

\* C36: the step in which the model call of an invocation fails changes no
\* history and no conversation: the invocation's user message and the
\* assistant and tool-role messages of its earlier rounds stay where they
\* are; no step removes a message from a history object, and the step that
\* starts the session's next invocation sends the stored history, with all
\* those messages, followed by the new user message.
C36_Step ==
    /\ \A c \in Calls :
          LET cr == calls[c]
          IN (cr.pc = "awaitModel" /\ calls'[c].pc = "rejected") =>
                /\ heap' = heap
                /\ conversations' = conversations
                /\ \A i \in 1..Len(cr.sent) :
                      i \in PushedBy(cr.sent, cr.inv) =>
                         \E j \in PushedBy(heap'[cr.hist], cr.inv) :
                            heap'[cr.hist][j] = cr.sent[i]
                /\ \E j \in 1..Len(heap'[cr.hist]) :
                      heap'[cr.hist][j] = UserMessage(cr.inv)
    /\ \A h \in 1..Len(heap) : IsPrefix(heap[h], heap'[h])
    /\ \A c \in Calls :
          (started' # started /\ calls'[c].inv = started') =>
              LET s == calls'[c].sid
              IN HasConversation(s) =>
                    calls'[c].sent =
                        Append(getConversation(s), UserMessage(started'))

C36_NothingRolledBack == [][C36_Step]_vars

\* the first invocation was rejected by the model call of its second round,
\* and the second invocation of the session sends its user message, its
\* assistant message and its tool message before the new user message
C36_Witness ==
    \E c \in Calls :
        /\ calls[c].inv = 2 /\ calls[c].pc = "awaitModel"
        /\ \A d \in Calls : calls[d].inv # 1
        /\ Len(calls[c].sent) = 4
        /\ calls[c].sent[1] = UserMessage(1)
        /\ calls[c].sent[2].role = "assistant" /\ calls[c].sent[2].id[1] = 1
        /\ calls[c].sent[3].role = "tool"
        /\ calls[c].sent[3].toolResults[1].id[1] = 1
        /\ calls[c].sent[4] = UserMessage(2)

\* the position in msgs where the batch of the assistant message m starts
BatchAt(msgs, m, q) ==
    /\ q + Len(m.toolCalls) - 1 <= Len(msgs)
    /\ \A k \in 1..Len(m.toolCalls) :
          /\ msgs[q + k - 1].role = "tool"
          /\ msgs[q + k - 1].id = m.toolCalls[k].id

\* C37: in every history object, overlapping invocations included, the
\* tool-role messages that answer one assistant message stand at
\* consecutive positions after it, in the order of its tool calls, and
\* whatever stands between the assistant message and its batch was pushed
\* by another invocation.
C37_BatchesContiguous ==
    \A h \in 1..Len(heap) :
        LET msgs == heap[h]
        IN \A j \in 1..Len(msgs) :
              (WantsTools(msgs[j])
               /\ \E i \in 1..Len(msgs) :
                     msgs[i].role = "tool" /\ msgs[i].id \in IdsOf(msgs[j])) =>
                 \E q \in (j + 1)..Len(msgs) :
                    /\ BatchAt(msgs, msgs[j], q)
                    /\ \A i \in 1..Len(msgs) :
                          (msgs[i].role = "tool" /\ msgs[i].id \in IdsOf(msgs[j])) =>
                             (q <= i /\ i < q + Len(msgs[j].toolCalls))
                    /\ \A i \in (j + 1)..(q - 1) : msgs[i].id[1] # msgs[j].id[1]

\* two invocations overlap on a session: a batch of three tool messages
\* stands together behind a message the other invocation pushed into the gap
C37_Witness ==
    \E h \in 1..Len(heap) : \E j, q \in 1..Len(heap[h]) :
        /\ WantsTools(heap[h][j])
        /\ Len(heap[h][j].toolCalls) = 3
        /\ q > j + 1
        /\ BatchAt(heap[h], heap[h][j], q)
        /\ heap[h][q - 1].id[1] # heap[h][j].id[1]

(***************************************************************************)
(* The CostTracker singleton (CostTrackingTool.ts) on its own: the          *)
(* constructor starts loadCostLog without awaiting it, trackRequest pushes *)
(* and saves, reset_api_costs empties the log.  The log file holds one of  *)
(* CostFiles or an array the tracker wrote.                                 *)
(***************************************************************************)
MaxTracked == 2
MaxPersisted == 2

\* the log file: a text of CostFiles, or an array of n entries
FileText(text) == [text |-> text, n |-> 0]
FileArray(n) == [text |-> "array", n |-> n]

\* JSON.parse of what readFile returned, as loadCostLog stores it
ParsedLog(file) ==
    IF file.text = "array" THEN Arr(file.n) ELSE loadCostLog(file.text)

\* the entries the persisted log holds
Entries(file) == IF file.text = "array" THEN file.n ELSE 0

\* getSummary().totalRequests: this.costLog.length
totalRequests(costLog) == IF costLog.t = "array" THEN costLog.v ELSE -1

CostInit ==
    /\ AgentInit
    /\ adapter = AdapterIdle /\ fsTool = FsToolIdle
    /\ validation = ValidationIdle
    /\ \E file \in {FileText(t) : t \in CostFiles}
                     \cup {FileArray(n) : n \in 1..MaxPersisted},
          dir \in BOOLEAN :
          /\ file.text # "absent" => dir
          /\ tracker = [TrackerIdle EXCEPT !.file = file, !.persisted = file,
                                           !.dir = dir]

\* getInstance, first call: the field initializer, then the constructor runs
\* loadCostLog up to its await (existsSync is synchronous)
getInstance ==
    /\ tracker.pc = "none"
    /\ tracker' = [tracker EXCEPT
          !.costLog = Arr(0),
          !.pc = IF tracker.file.text # "absent" THEN "loading" ELSE "loaded"]
    /\ UNCHANGED <<agentVars, adapter, fsTool, validation>>

\* the file system reads the file for the pending readFile
readFile ==
    /\ tracker.pc = "loading" /\ tracker.read = <<>>
    /\ tracker' = [tracker EXCEPT !.read = <<tracker.file>>]
    /\ UNCHANGED <<agentVars, adapter, fsTool, validation>>

\* await readFile resolved: this.costLog = JSON.parse(data), whatever the
\* log held by now; a parse error is caught
LoadResolves ==
    /\ tracker.pc = "loading" /\ tracker.read # <<>>
    /\ tracker' = [tracker EXCEPT !.costLog = ParsedLog(tracker.read[1]),
                                  !.read = <<>>, !.pc = "loaded"]
    /\ UNCHANGED <<agentVars, adapter, fsTool, validation>>

\* await readFile rejected: the catch block starts fresh
LoadRejects ==
    /\ tracker.pc = "loading" /\ tracker.read = <<>>
    /\ tracker' = [tracker EXCEPT !.costLog = Arr(0), !.loadError = TRUE,
                                  !.pc = "loaded"]
    /\ UNCHANGED <<agentVars, adapter, fsTool, validation>>

\* saveCostLog up to its first await: mkdir when logs/ is missing, else
\* writeFile with the log as it is now
StartSave(saving, dir, costLog) ==
    Append(saving, IF dir THEN [stage |-> "writeFile", data |-> <<costLog>>]
                   ELSE [stage |-> "mkdir", data |-> <<>>])

\* trackRequest up to its await: the push, then saveCostLog
TrackRequest ==
    /\ tracker.pc # "none"
    /\ tracker.tracked + tracker.thrown < MaxTracked
    /\ LET r == trackRequest(tracker.costLog)
       IN tracker' =
            IF r.ok
            THEN [tracker EXCEPT
                    !.costLog = r.costLog, !.tracked = @ + 1,
                    !.saving = StartSave(@, tracker.dir, r.costLog)]
            ELSE [tracker EXCEPT !.thrown = @ + 1]
    /\ UNCHANGED <<agentVars, adapter, fsTool, validation>>

Without(seq, i) == SubSeq(seq, 1, i - 1) \o SubSeq(seq, i + 1, Len(seq))

\* a pending file operation of saveCostLog settles; rejections are caught
SaveSettles(i, outcome) ==
    /\ i \in 1..Len(tracker.saving)
    /\ LET op == tracker.saving[i]
       IN IF op.stage = "mkdir"
          THEN /\ outcome \in {"written", "mkdir rejected"}
               /\ tracker' =
                    IF outcome = "mkdir rejected"
                    THEN [tracker EXCEPT !.saving = Without(@, i)]
                    ELSE [tracker EXCEPT
                            !.dir = TRUE,
                            !.saving = [@ EXCEPT ![i] =
                                [stage |-> "writeFile",
                                 data |-> <<tracker.costLog>>]]]
          ELSE /\ outcome \in {"written", "writeFile rejected"}
               /\ tracker' =
                    IF outcome = "writeFile rejected"
                    THEN [tracker EXCEPT !.saving = Without(@, i)]
                    ELSE [tracker EXCEPT
                            !.saving = Without(@, i),
                            !.file = IF op.data[1].t = "array"
                                     THEN FileArray(op.data[1].v)
                                     ELSE FileText("{}")]
    /\ UNCHANGED <<agentVars, adapter, fsTool, validation>>

\* reset_api_costs: the log is replaced by an empty array and saved
ResetCosts ==
    /\ tracker.pc # "none" /\ ~tracker.reset
    /\ tracker' = [tracker EXCEPT
          !.costLog = Arr(0), !.reset = TRUE,
          !.saving = StartSave(@, tracker.dir, Arr(0))]
    /\ UNCHANGED <<agentVars, adapter, fsTool, validation>>

CostNext ==
    \/ getInstance
    \/ readFile
    \/ LoadResolves
    \/ LoadRejects
    \/ TrackRequest
    \/ \E i \in 1..MaxTracked + 1, outcome \in SaveOutcomes :
          SaveSettles(i, outcome)
    \/ ResetCosts

CostSpec == CostInit /\ [][CostNext]_vars

\* C38: once the initial load of a log of m entries has succeeded, and until
\* reset_api_costs, every trackRequest call made so far has its entry in the
\* in-memory log: getSummary().totalRequests is m + k after k calls.
C38_EveryRequestCounted ==
    (/\ tracker.pc = "loaded"
     /\ ~tracker.reset /\ ~tracker.loadError
     /\ tracker.persisted.text \in {"absent", "[]", "array"}) =>
        /\ tracker.thrown = 0
        /\ totalRequests(tracker.costLog) =
              Entries(tracker.persisted) + tracker.tracked

(***************************************************************************)
(* pre_push_validate (TestExecutionTool.ts): five checks run with execSync *)
(* in the project, each recorded with a status, then the verdict.  The     *)
(* statuses stand for the marks of the report: "passed" for the check      *)
(* mark, "warning" for the warning sign, "failed" for the cross, "skipped" *)
(* for the skip sign.                                                      *)
(***************************************************************************)
Scripts == {"lint", "test", "build"}

\* the projects the tool runs in: the repository's state, package.json and
\* its scripts, and how each script that exists ends
Projects ==
    {p \in [git : {"changes", "clean", "no repository"},
            staged : {"plain", "API_KEY", "API_KEY in .env.example"},
            packageJson : BOOLEAN,
            scripts : SUBSET Scripts,
            lint : {"clean", "fixable errors", "errors"},
            test : {"pass", "fail", "fail, output names neither"},
            build : {"ok", "error"}] :
        /\ ~p.packageJson => p.scripts = {}
        /\ p.git = "no repository" => p.staged = "plain"
        /\ "lint" \notin p.scripts => p.lint = "clean"
        /\ "test" \notin p.scripts => p.test = "pass"
        /\ "build" \notin p.scripts => p.build = "ok"}

Arguments == [skipTests : BOOLEAN, autoFix : BOOLEAN]

Check(name, status, details) ==
    [name |-> name, status |-> status, details |-> details]

\* execSync('npm run <script>') / execSync('npm test') throws: npm fails for
\* a script package.json does not define, and when the script fails
NpmThrows(p, script, failed) == script \notin p.scripts \/ failed

\* step 1: git status --short
GitStatusCheck(p) ==
    IF p.git = "no repository"
    THEN Check("Git Status", "failed", "not a git repository")
    ELSE IF p.git = "clean"
    THEN Check("Git Status", "warning", "No changes to commit")
    ELSE Check("Git Status", "passed", "file(s) changed")

\* step 2: npm run lint; in the catch block hasLintScript is
\* existsSync(join(workspaceRoot, 'package.json'))
LintCheck(p, autoFix) ==
    IF ~NpmThrows(p, "lint", \/ p.lint = "errors"
                             \/ p.lint = "fixable errors" /\ ~autoFix)
    THEN Check("Linting", "passed", "No linting errors")
    ELSE LET hasLintScript == p.packageJson
         IN IF ~hasLintScript
            THEN Check("Linting", "skipped", "No lint script found")
            ELSE Check("Linting", "failed", "Linting errors found")

\* step 3: npm test; the output looked at is error.stdout || error.message,
\* and the message names the command, 'npm test'
TestCheck(p) ==
    IF ~NpmThrows(p, "test", p.test # "pass")
    THEN Check("Tests", "passed", "All tests passed")
    ELSE LET hasTests ==
                \/ "test" \notin p.scripts
                \/ p.test = "fail"
         IN IF ~hasTests
            THEN Check("Tests", "warning", "No tests found")
            ELSE Check("Tests", "failed", "Some tests failed")

\* step 4: git diff --cached searched for the sensitive patterns
SecurityCheck(p) ==
    IF p.git = "no repository"
    THEN Check("Security", "skipped", "No staged changes")
    ELSE IF p.staged = "API_KEY"
    THEN Check("Security", "warning", "Possible sensitive data detected")
    ELSE Check("Security", "passed", "No sensitive data detected")

\* step 5: require(package.json) throws without the file
BuildCheck(p) ==
    IF ~p.packageJson THEN Check("Build", "failed", "Build failed")
    ELSE IF "build" \notin p.scripts
    THEN Check("Build", "skipped", "No build script")
    ELSE IF p.build = "error" THEN Check("Build", "failed", "Build failed")
    ELSE Check("Build", "passed", "Build successful")

\* the checks array as execute fills it
Checks(p, args) ==
    <<GitStatusCheck(p)>>
    \o (IF ~args.skipTests THEN <<LintCheck(p, args.autoFix)>> ELSE <<>>)
    \o (IF ~args.skipTests THEN <<TestCheck(p)>>
        ELSE <<Check("Tests", "skipped", "Skipped")>>)
    \o <<SecurityCheck(p)>>
    \o <<BuildCheck(p)>>

Verdict(checks) ==
    LET hasFailures == \E i \in 1..Len(checks) : checks[i].status = "failed"
        hasWarnings == \E i \in 1..Len(checks) : checks[i].status = "warning"
    IN IF hasFailures THEN "VALIDATION FAILED - DO NOT PUSH"
       ELSE IF hasWarnings THEN "VALIDATION PASSED WITH WARNINGS"
       ELSE "VALIDATION PASSED - SAFE TO PUSH"

ValidationInit ==
    /\ AgentInit
    /\ adapter = AdapterIdle /\ fsTool = FsToolIdle /\ tracker = TrackerIdle
    /\ validation \in
         {[ValidationIdle EXCEPT !.pc = "start", !.project = <<p>>,
                                 !.args = <<a>>] :
             p \in Projects, a \in Arguments}

\* PrePushValidationTool.execute: every command is synchronous
PrePushValidate ==
    /\ validation.pc = "start"
    /\ LET checks == Checks(validation.project[1], validation.args[1])
       IN validation' = [validation EXCEPT !.pc = "done", !.checks = checks,
                                           !.verdict = Verdict(checks)]
    /\ UNCHANGED <<agentVars, adapter, fsTool, tracker>>

ValidationNext == PrePushValidate

ValidationSpec == ValidationInit /\ [][ValidationNext]_vars

CheckNamed(checks, name) ==
    checks[CHOOSE i \in 1..Len(checks) : checks[i].name = name]

\* C39: when the linter ran in a project that defines no lint script, the
\* Linting check is recorded as skipped with 'No lint script found', and
\* if no other check failed the verdict is not 'VALIDATION FAILED - DO NOT
\* PUSH'.
C39_MissingLintScriptSkipped ==
    (/\ validation.pc = "done"
     /\ ~validation.args[1].skipTests
     /\ "lint" \notin validation.project[1].scripts) =>
        LET checks == validation.checks
        IN /\ CheckNamed(checks, "Linting") =
                 Check("Linting", "skipped", "No lint script found")
           /\ (\A i \in 1..Len(checks) :
                  checks[i].name # "Linting" => checks[i].status # "failed") =>
                 validation.verdict # "VALIDATION FAILED - DO NOT PUSH"

====
